---- MODULE Spec2Model ----
(***************************************************************************)
(* State-machine model of the two grid simulation engines of the           *)
(* repository:                                                             *)
(*   ForestFireEnv      (src/forest_fire_env.py)                           *)
(*   ForestGuardianEnv  (src/numba_env.py, with its kernel physics_step)   *)
(* One behaviour follows one environment object: Init is the object after  *)
(* construction, Reset and Step are reset() and step().  Agent i of the    *)
(* code (0-based) is agent i+1 here.  Rewards are kept in tenths           *)
(* (reward 0.1 is 1); the units of the spread model are given with it.     *)
(***************************************************************************)
EXTENDS Integers, Sequences, FiniteSets, TLC

VARIABLES
    variant,            \* which class the object is an instance of
    config,             \* constructor arguments (never reassigned)
    called,             \* the last call made on the object
    ret,                \* what the last call returned
    \* ---- ForestFireEnv fields
    grid,               \* self.grid
    elevation,          \* self.elevation (hundred-millionths)
    fuel_moisture,      \* self.fuel_moisture (thousandths of a percent)
    wind_direction,     \* self.wind_direction (degrees)
    wind_speed,         \* self.wind_speed (tenths of a km/h)
    agent_positions,    \* self.agent_positions
    steps_count,        \* self.steps_count
    initial_tree_count, \* the initial tree count of the episode (no field of the code)
    water_tanks,        \* self.water_tanks
    drawn_from,         \* the random generator the last call drew from
    \* ---- ForestGuardianEnv fields
    np_state,           \* self.np_state (channels fire and agents)
    nb_agent_positions, \* self.agent_positions of ForestGuardianEnv
    steps               \* self.steps

vars == <<variant, config, called, ret, grid, elevation, fuel_moisture,
          wind_direction, wind_speed, agent_positions, steps_count,
          initial_tree_count, water_tanks, drawn_from, np_state,
          nb_agent_positions, steps>>

ffe_vars == <<grid, elevation, fuel_moisture, wind_direction, wind_speed,
              agent_positions, steps_count, initial_tree_count, water_tanks>>

nb_vars == <<np_state, nb_agent_positions, steps>>

(***************************************************************************)
(* Bounds of the model.                                                    *)
(***************************************************************************)
\* step() calls explored per episode (the counters are unbounded in the code)
MaxCalls == 2
\* outcomes of the draws of reset() (terrain, noise, wind) the model follows
MaxResetDraws == 4
\* the distance between two values of the uniform(-2.0, 2.0) draw the model
\* follows, thousandths of a percent
UAVNoiseStep == 500
\* the step limit the callers of ForestFireEnv loop to (max_steps = 100)
max_steps == 1
\* MAX_STEPS of numba_env.py (500 there), scaled down
MAX_STEPS == 1

None == "None"

Max(a, b) == IF a >= b THEN a ELSE b
Min(a, b) == IF a <= b THEN a ELSE b
Abs(a) == IF a >= 0 THEN a ELSE -a
Clip(x, lo, hi) == IF x < lo THEN lo ELSE IF x > hi THEN hi ELSE x

Cells(gs) == (0..(gs - 1)) \X (0..(gs - 1))

InBounds(rc, gs) == rc[1] >= 0 /\ rc[1] < gs /\ rc[2] >= 0 /\ rc[2] < gs

Count(g, v) == Cardinality({c \in DOMAIN g : g[c] = v})

\* cells at Chebyshev distance <= 1 of rc that are inside the grid
Block3x3(rc, gs) ==
    {c \in Cells(gs) : Abs(c[1] - rc[1]) <= 1 /\ Abs(c[2] - rc[2]) <= 1}

\* the 4 neighbours of a fire cell that are inside the grid
Neighbors4(rc, gs) ==
    {c \in Cells(gs) : Abs(c[1] - rc[1]) + Abs(c[2] - rc[2]) = 1}

(***************************************************************************)
(* Fixed-point arithmetic.  Factors are kept in ten-thousandths (1.0 is    *)
(* 10000), elevations in hundred-millionths, moistures in thousandths of a *)
(* percent (15 % is 15000), wind speeds in tenths of a km/h, probabilities *)
(* in ten-millionths (1.0 is 10000000).  Where the fixed point cannot tell *)
(* the float of the code, it keeps a pair <<lo, hi>> of bounds for it.     *)
(***************************************************************************)
\* floor(a * b / d) without an intermediate product beyond 32 bits
\* (0 <= a, 0 <= b, (d - 1) * b < 2^31)
MulDiv(a, b, d) == (a \div d) * b + ((a % d) * b) \div d

\* ceiling(a / b), b > 0
CeilDiv(a, b) == -((-a) \div b)

\* ceiling(a * b / d), under the conditions of MulDiv
MulDivUp(a, b, d) == (a \div d) * b + CeilDiv((a % d) * b, d)

(***************************************************************************)
(* Numbers beyond 32 bits, for the float64 arithmetic of                   *)
(* _generate_elevation_map: a natural number is the sequence of its        *)
(* base-10000 digits, the least significant first (<<>> is 0).  The         *)
(* recursions over a number test the length of their argument, so that it  *)
(* is a value before the next step is taken.                               *)
(***************************************************************************)
Limb(a, i) == IF i <= Len(a) THEN a[i] ELSE 0

RECURSIVE BigAddFrom(_, _, _, _)
BigAddFrom(a, b, i, carry) ==
    IF i > Max(Len(a), Len(b)) THEN (IF carry = 0 THEN <<>> ELSE <<carry>>)
    ELSE LET t == Limb(a, i) + Limb(b, i) + carry
         IN  <<t % 10000>> \o BigAddFrom(a, b, i + 1, t \div 10000)

\* a + b
BigAdd(a, b) == BigAddFrom(a, b, 1, 0)

RECURSIVE BigSubFrom(_, _, _, _)
BigSubFrom(a, b, i, borrow) ==
    IF i > Len(a) THEN <<>>
    ELSE LET t == Limb(a, i) - Limb(b, i) - borrow
         IN  <<t % 10000>> \o BigSubFrom(a, b, i + 1, IF t < 0 THEN 1 ELSE 0)

\* a - b, for a >= b
BigSub(a, b) == BigSubFrom(a, b, 1, 0)

RECURSIVE BigScaleFrom(_, _, _, _)
BigScaleFrom(a, k, i, carry) ==
    IF i > Len(a) THEN (IF carry = 0 THEN <<>> ELSE <<carry>>)
    ELSE LET t == a[i] * k + carry
         IN  <<t % 10000>> \o BigScaleFrom(a, k, i + 1, t \div 10000)

\* a * k, for an integer 0 <= k <= 10000
BigScale(a, k) == BigScaleFrom(a, k, 1, 0)

RECURSIVE BigPower(_, _, _)
\* a * k^n
BigPower(a, k, n) ==
    IF n = 0 \/ Len(a) < 0 THEN a ELSE BigPower(BigScale(a, k), k, n - 1)

RECURSIVE BigLeqFrom(_, _, _)
BigLeqFrom(a, b, i) ==
    IF i = 0 THEN TRUE
    ELSE IF Limb(a, i) # Limb(b, i) THEN Limb(a, i) < Limb(b, i)
    ELSE BigLeqFrom(a, b, i - 1)

\* a <= b
BigLeq(a, b) == BigLeqFrom(a, b, Max(Len(a), Len(b)))

RECURSIVE BigDivFrom(_, _, _, _)
BigDivFrom(r, d, n, q) ==
    IF n = 0 \/ Len(r) + Len(q) < 0 THEN q
    ELSE LET r10 == BigScale(r, 10)
             k == CHOOSE k \in 0..9 :
                     BigLeq(BigScale(d, k), r10) /\ ~BigLeq(BigScale(d, k + 1), r10)
         IN  BigDivFrom(BigSub(r10, BigScale(d, k)), d, n - 1,
                        BigAdd(BigScale(q, 10), <<k>>))

\* floor(r * 10^n / d) for r < d, one decimal digit at a time
BigDiv(r, d, n) == BigDivFrom(r, d, n, <<>>)

\* the nearest integer to a / 10000^n, the even one of two equally near
\* (below 2^31)
BigRound(a, n) ==
    LET q == Limb(a, n + 1) + 10000 * Limb(a, n + 2) + 100000000 * Limb(a, n + 3)
        up == \/ Limb(a, n) > 5000
              \/ /\ Limb(a, n) = 5000
                 /\ \/ \E i \in 1..(n - 1) : Limb(a, i) # 0
                    \/ q % 2 = 1
    IN  IF up THEN q + 1 ELSE q

RECURSIVE Float32Exponent(_, _)
\* <<k, x * 2^(k + 1)>> for the k with 2^-(k + 1) <= x < 2^-k, where x is
\* in units of 10^-16; k = 28 for every x below 2^-28
Float32Exponent(x, k) ==
    IF k = 28 \/ BigLeq(<<0, 0, 0, 0, 1>>, BigScale(x, 2)) THEN <<k, BigScale(x, 2)>>
    ELSE Float32Exponent(BigScale(x, 2), k + 1)

\* astype(np.float32) of a float64 x in [0, 1), x in units of 10^-16: the
\* float32 nearest to x (24 bits, the even one of two equally near), in
\* hundred-millionths
AsFloat32(x) ==
    LET e == Float32Exponent(x, 0)
        mantissa == BigRound(BigScale(BigScale(e[2], 4096), 2048), 4)
        bits == 24 + e[1]
        value == BigPower(<<mantissa % 10000, mantissa \div 10000>>, 5, bits)
        pad == (4 - ((bits - 8) % 4)) % 4
    IN  IF e[1] = 28 THEN 0
        ELSE BigRound(BigScale(value, 10^pad), (bits - 8 + pad) \div 4)

(***************************************************************************)
(* ForestFireEnv: the spread model (_calculate_fire_spread_probability).   *)
(***************************************************************************)
\* degrees(arctan2(dc, -dr)) % 360 for a step to the cell itself or to one
\* of its 8 neighbours
FireDirection(from_pos, to_pos) ==
    LET dr == to_pos[1] - from_pos[1]
        dc == to_pos[2] - from_pos[2]
    IN  IF dc = 0 THEN (IF dr > 0 THEN 180 ELSE 0)
        ELSE IF dc > 0 THEN (IF dr < 0 THEN 45 ELSE IF dr = 0 THEN 90 ELSE 135)
        ELSE (IF dr > 0 THEN 225 ELSE IF dr = 0 THEN 270 ELSE 315)

\* angle_diff = abs(fire_direction - wind_direction), folded into [0, 180]
AngleDiff(fire_direction, wind_dir) ==
    LET d == Abs(fire_direction - wind_dir)
    IN  IF d > 180 THEN 360 - d ELSE d

\* alignment = 1 - angle_diff / 180, rounded up to a ten-thousandth
Alignment(from_pos, to_pos, wind_dir) ==
    10000 - (10000 * AngleDiff(FireDirection(from_pos, to_pos), wind_dir)) \div 180

\* the bounds of alignment: equal when angle_diff / 180 is a whole number of
\* ten-thousandths
AlignmentBounds(from_pos, to_pos, wind_dir) ==
    <<10000 - CeilDiv(10000 * AngleDiff(FireDirection(from_pos, to_pos), wind_dir), 180),
      Alignment(from_pos, to_pos, wind_dir)>>

\* round(10000 * (speed / 10) ** 1.5) for speed = 0.0, 0.1 .. 20.0 km/h
WindMultiplierTable ==
    <<0, 10, 28, 52, 80, 112, 147, 185, 226, 270,
      316, 365, 416, 469, 524, 581, 640, 701, 764, 828,
      894, 962, 1032, 1103, 1176, 1250, 1326, 1403, 1482, 1562,
      1643, 1726, 1810, 1896, 1983, 2071, 2160, 2251, 2342, 2436,
      2530, 2625, 2722, 2820, 2919, 3019, 3120, 3222, 3326, 3430,
      3536, 3642, 3750, 3858, 3968, 4079, 4191, 4303, 4417, 4532,
      4648, 4764, 4882, 5000, 5120, 5240, 5362, 5484, 5607, 5732,
      5857, 5983, 6109, 6237, 6366, 6495, 6626, 6757, 6889, 7022,
      7155, 7290, 7425, 7562, 7699, 7837, 7975, 8115, 8255, 8396,
      8538, 8681, 8824, 8969, 9114, 9259, 9406, 9553, 9702, 9850,
      10000, 10150, 10301, 10453, 10606, 10759, 10913, 11068, 11224, 11380,
      11537, 11695, 11853, 12012, 12172, 12332, 12494, 12655, 12818, 12981,
      13145, 13310, 13475, 13641, 13808, 13975, 14143, 14312, 14482, 14652,
      14822, 14994, 15166, 15338, 15512, 15686, 15860, 16035, 16211, 16388,
      16565, 16743, 16921, 17100, 17280, 17460, 17641, 17823, 18005, 18188,
      18371, 18555, 18740, 18925, 19111, 19297, 19484, 19672, 19860, 20049,
      20239, 20429, 20619, 20810, 21002, 21195, 21388, 21581, 21775, 21970,
      22165, 22361, 22558, 22755, 22952, 23150, 23349, 23548, 23748, 23949,
      24150, 24351, 24553, 24756, 24959, 25163, 25367, 25572, 25777, 25983,
      26190, 26397, 26604, 26812, 27021, 27230, 27440, 27650, 27861, 28072,
      28284>>

\* wind_multiplier = (wind_speed / 10) ** 1.5, the wind speed in tenths of
\* a km/h
WindMultiplier(speed) == WindMultiplierTable[speed + 1]

\* the bounds of wind_multiplier: the float is 0.0 for 0 km/h and 1.0 for
\* 10 km/h, and within one ten-thousandth of the table otherwise
WindMultiplierBounds(speed) ==
    IF speed \in {0, 100} THEN <<WindMultiplier(speed), WindMultiplier(speed)>>
    ELSE <<WindMultiplier(speed) - 1, WindMultiplier(speed) + 1>>

\* wind_factor = clip(1 + wind_multiplier * alignment, 0.15, 5.0)
WindFactor(from_pos, to_pos, wind_dir, speed) ==
    Clip(10000 + (WindMultiplier(speed) * Alignment(from_pos, to_pos, wind_dir)) \div 10000,
         1500, 50000)

\* the bounds of wind_factor, from those of its two factors
WindFactorBounds(from_pos, to_pos, wind_dir, speed) ==
    LET wind_multiplier == WindMultiplierBounds(speed)
        alignment == AlignmentBounds(from_pos, to_pos, wind_dir)
    IN  <<Clip(10000 + (wind_multiplier[1] * alignment[1]) \div 10000, 1500, 50000),
          Clip(10000 + CeilDiv(wind_multiplier[2] * alignment[2], 10000), 1500, 50000)>>

\* slope = elev_to - elev_from; 1 + slope * 8 uphill, 1 + slope * 0.2
\* otherwise, clipped to [0.1, 5.0]; the elevations are in
\* hundred-millionths, the factor is rounded down
ElevationFactor(elev_from, elev_to) ==
    LET slope == elev_to - elev_from
    IN  Clip(IF slope > 0 THEN 10000 + (slope * 8) \div 10000
             ELSE 10000 + (slope * 2) \div 100000,
             1000, 50000)

\* the bounds of elevation_factor.  The two elevations are float32 values
\* to the nearest hundred-millionth, so their float32 difference is known
\* within two hundred-millionths (equal values of the model need not be
\* equal floats), and the factor within one ten-thousandth of its
\* value on the difference of the model.
ElevationFactorBounds(elev_from, elev_to) ==
    LET slope == elev_to - elev_from
    IN  IF slope > 0
        THEN <<Clip(10000 + (slope * 8) \div 10000 - 1, 1000, 50000),
               Clip(10000 + CeilDiv(slope * 8, 10000) + 1, 1000, 50000)>>
        ELSE <<Clip(10000 + (slope * 2) \div 100000 - 1, 1000, 50000),
               Clip(10000 + CeilDiv(slope * 2, 100000) + 1, 1000, 50000)>>

\* round(1000000 * exp(-0.10 * (m - 5))) for m = 5.0, 5.1 .. 28.1 percent
MoistureTable ==
    <<1000000, 990050, 980199, 970446, 960789, 951229, 941765, 932394,
      923116, 913931, 904837, 895834, 886920, 878095, 869358, 860708,
      852144, 843665, 835270, 826959, 818731, 810584, 802519, 794534,
      786628, 778801, 771052, 763379, 755784, 748264, 740818, 733447,
      726149, 718924, 711770, 704688, 697676, 690734, 683861, 677057,
      670320, 663650, 657047, 650509, 644036, 637628, 631284, 625002,
      618783, 612626, 606531, 600496, 594521, 588605, 582748, 576950,
      571209, 565525, 559898, 554327, 548812, 543351, 537944, 532592,
      527292, 522046, 516851, 511709, 506617, 501576, 496585, 491644,
      486752, 481909, 477114, 472367, 467666, 463013, 458406, 453845,
      449329, 444858, 440432, 436049, 431711, 427415, 423162, 418952,
      414783, 410656, 406570, 402524, 398519, 394554, 390628, 386741,
      382893, 379083, 375311, 371577, 367879, 364219, 360595, 357007,
      353455, 349938, 346456, 343009, 339596, 336216, 332871, 329559,
      326280, 323033, 319819, 316637, 313486, 310367, 307279, 304221,
      301194, 298197, 295230, 292293, 289384, 286505, 283654, 280832,
      278037, 275271, 272532, 269820, 267135, 264477, 261846, 259240,
      256661, 254107, 251579, 249075, 246597, 244143, 241714, 239309,
      236928, 234570, 232236, 229925, 227638, 225373, 223130, 220910,
      218712, 216536, 214381, 212248, 210136, 208045, 205975, 203926,
      201897, 199888, 197899, 195930, 193980, 192050, 190139, 188247,
      186374, 184520, 182684, 180866, 179066, 177284, 175520, 173774,
      172045, 170333, 168638, 166960, 165299, 163654, 162026, 160414,
      158817, 157237, 155673, 154124, 152590, 151072, 149569, 148080,
      146607, 145148, 143704, 142274, 140858, 139457, 138069, 136695,
      135335, 133989, 132655, 131336, 130029, 128735, 127454, 126186,
      124930, 123687, 122456, 121238, 120032, 118837, 117655, 116484,
      115325, 114178, 113042, 111917, 110803, 109701, 108609, 107528,
      106459, 105399, 104350, 103312, 102284, 101266, 100259, 99261>>

\* moisture_factor = clip(exp(-0.10 * (moisture - 5)), 0.1, 1.0): the table,
\* interpolated between two tenths of a percent
MoistureFactor(moisture) ==
    IF moisture <= 5000 THEN 10000
    ELSE IF moisture >= 28100 THEN 1000
    ELSE LET t == moisture \div 100
             lo == MoistureTable[t - 49]
             hi == MoistureTable[t - 48]
         IN  Clip((lo - ((lo - hi) * (moisture % 100)) \div 100 + 50) \div 100,
                  1000, 10000)

\* the bounds of moisture_factor.  The moisture is a float32 to the nearest
\* thousandth of a percent, so the factor lies between the factors of the
\* thousandth above and of the thousandth below, each taken from the table
\* within one ten-thousandth.
MoistureFactorBounds(moisture) ==
    <<Clip(MoistureFactor(moisture + 1) - 1, 1000, 10000),
      Clip(MoistureFactor(moisture - 1) + 1, 1000, 10000)>>

\* final_prob = clip(base_prob * wind_factor * elevation_factor
\* * moisture_factor, 0, 1), base_prob in permille: the bounds [lo, hi] of
\* the float returned.  The product is 0.0 when base_prob is 0.0; otherwise
\* it lies between the products of the bounds, rounded outwards.
_calculate_fire_spread_probability(from_pos, to_pos, base_prob, elev, moist, wind_dir, speed) ==
    LET wind_factor == WindFactorBounds(from_pos, to_pos, wind_dir, speed)
        elevation_factor == ElevationFactorBounds(elev[from_pos], elev[to_pos])
        moisture_factor == MoistureFactorBounds(moist[to_pos])
        lo == MulDiv(MulDiv(base_prob * wind_factor[1], elevation_factor[1], 10000),
                     moisture_factor[1], 10000)
        hi == MulDivUp(MulDivUp(base_prob * wind_factor[2], elevation_factor[2], 10000),
                       moisture_factor[2], 10000)
    IN  IF base_prob = 0 THEN [lo |-> 0, hi |-> 0]
        ELSE [lo |-> Clip(lo - 1, 0, 10000000), hi |-> Clip(hi + 1, 0, 10000000)]

\* random() <= spread_prob: a draw of 0.0 succeeds for probability 0
SampleOutcomes_Inclusive(spread_prob) ==
    {outcome \in BOOLEAN : IF outcome THEN spread_prob.hi >= 0
                           ELSE spread_prob.lo < 10000000}

\* self.np_random.random() < spread_prob, random() drawn from [0, 1): the
\* outcomes the draw can have for a spread_prob within the bounds
SampleOutcomes(spread_prob) ==
    {outcome \in BOOLEAN : IF outcome THEN spread_prob.hi > 0
                           ELSE spread_prob.lo < 10000000}

(***************************************************************************)
(* ForestFireEnv.step, phase 1: the agents, in index order.                *)
(***************************************************************************)
ProposedMove(action, rc, gs) ==
    IF action = 0 THEN <<Max(0, rc[1] - 1), rc[2]>>
    ELSE IF action = 1 THEN <<Min(gs - 1, rc[1] + 1), rc[2]>>
    ELSE IF action = 2 THEN <<rc[1], Max(0, rc[2] - 1)>>
    ELSE IF action = 3 THEN <<rc[1], Min(gs - 1, rc[2] + 1)>>
    ELSE rc

\* another agent stands on rc, in the positions as they are now
Collision(i, rc, positions) ==
    \E j \in DOMAIN positions : i # j /\ positions[j] = rc

ResolveMove(i, action, positions, gs) ==
    LET rc == ProposedMove(action, positions[i], gs)
    IN  IF Collision(i, rc, positions) THEN positions[i] ELSE rc

\* the cells put out are planted again
Suppress_Replant(g, rc, gs) ==
    [c \in DOMAIN g |-> IF c \in Block3x3(rc, gs) /\ g[c] = 2 THEN 1 ELSE g[c]]

\* the agent's cell and its 4 neighbours only
Suppress_Cross(g, rc, gs) ==
    [c \in DOMAIN g |->
        IF Abs(c[1] - rc[1]) + Abs(c[2] - rc[2]) <= 1 /\ g[c] = 2 THEN 0 ELSE g[c]]

\* action 5 at rc: the Fire cells of the 3x3 block go out
Suppress(g, rc, gs) ==
    [c \in DOMAIN g |-> IF c \in Block3x3(rc, gs) /\ g[c] = 2 THEN 0 ELSE g[c]]

\* the 3x3 block is cleared whatever it holds
Firebreak_Clear(g, rc, gs) ==
    [c \in DOMAIN g |-> IF c \in Block3x3(rc, gs) THEN 0 ELSE g[c]]

\* action 6 at rc: the Tree cells of the 3x3 block are removed
Firebreak(g, rc, gs) ==
    [c \in DOMAIN g |-> IF c \in Block3x3(rc, gs) /\ g[c] = 1 THEN 0 ELSE g[c]]

SuppressReward(fires_extinguished) == 100 * fires_extinguished

FirebreakReward(trees_removed) == -10 * trees_removed

\* an agent that moves onto another agent's cell takes it, and the other
\* agent is put on the cell the mover left
ActuateAgent_Swap(st, i, action, gs) ==
    LET rc == ProposedMove(action, st.pos[i], gs)
        fires_extinguished == Cardinality({c \in Block3x3(rc, gs) : st.grid[c] = 2})
        trees_removed == Cardinality({c \in Block3x3(rc, gs) : st.grid[c] = 1})
    IN  [pos |-> [j \in DOMAIN st.pos |->
                    IF j = i THEN rc
                    ELSE IF st.pos[j] = rc THEN st.pos[i] ELSE st.pos[j]],
         grid |-> IF action = 5 THEN Suppress(st.grid, rc, gs)
                  ELSE IF action = 6 THEN Firebreak(st.grid, rc, gs)
                  ELSE st.grid,
         reward |-> st.reward
                    + (IF action = 5 THEN SuppressReward(fires_extinguished) ELSE 0)
                    + (IF action = 6 THEN FirebreakReward(trees_removed) ELSE 0)]

\* one iteration of the loop over the agents: st is [pos, grid, reward]
ActuateAgent(st, i, action, gs) ==
    LET rc == ResolveMove(i, action, st.pos, gs)
        fires_extinguished == Cardinality({c \in Block3x3(rc, gs) : st.grid[c] = 2})
        trees_removed == Cardinality({c \in Block3x3(rc, gs) : st.grid[c] = 1})
    IN  [pos |-> [st.pos EXCEPT ![i] = rc],
         grid |-> IF action = 5 THEN Suppress(st.grid, rc, gs)
                  ELSE IF action = 6 THEN Firebreak(st.grid, rc, gs)
                  ELSE st.grid,
         reward |-> st.reward
                    + (IF action = 5 THEN SuppressReward(fires_extinguished) ELSE 0)
                    + (IF action = 6 THEN FirebreakReward(trees_removed) ELSE 0)]

RECURSIVE AgentLoop(_, _, _, _, _)
\* for i, action in enumerate(actions[:self.num_agents])
AgentLoop(st, actions, i, n, gs) ==
    IF i > Min(Len(actions), n) THEN st
    ELSE AgentLoop(ActuateAgent(st, i, actions[i], gs), actions, i + 1, n, gs)

(***************************************************************************)
(* ForestFireEnv.step, phase 1: the moisture measured by an agent that has *)
(* moved (mongodb_enabled), on the cell it has moved onto.                 *)
(***************************************************************************)
\* the values of self.np_random.uniform(-2.0, 2.0) the model follows,
\* thousandths of a percent: both ends of [-2.0, 2.0) and the values
\* UAVNoiseStep apart in between
UAVNoise == {-2000 + k * UAVNoiseStep : k \in 0..(3999 \div UAVNoiseStep)} \cup {1999}

\* the measurement is stored as it is
_update_fuel_moisture_mongodb_Unclipped(moist, rc, delta) ==
    [moist EXCEPT ![rc] = moist[rc] + delta]

\* self.fuel_moisture[row, col] = clip(current_moisture + uniform(-2, 2), 5, 35)
_update_fuel_moisture_mongodb(moist, rc, delta) ==
    [moist EXCEPT ![rc] = Clip(moist[rc] + delta, 5000, 35000)]

RECURSIVE MovedAgents(_, _, _, _, _)
\* the agents i, i + 1, ... whose position changes in the loop over the
\* agents: (old_r, old_c) != (r, c)
MovedAgents(positions, actions, i, n, gs) ==
    IF i > Min(Len(actions), n) THEN {}
    ELSE LET rc == ResolveMove(i, actions[i], positions, gs)
         IN  (IF rc # positions[i] THEN {i} ELSE {})
             \cup MovedAgents([positions EXCEPT ![i] = rc], actions, i + 1, n, gs)

\* the uniform(-2, 2) draws of a step: one for every agent that moves
\* (the others make no draw, 0 stands for none)
UAVDraws(cfg, positions, actions) ==
    IF cfg.mongodb_enabled
    THEN {draws \in [1..cfg.num_agents -> UAVNoise \cup {0}] :
            \A i \in 1..cfg.num_agents :
                i \notin MovedAgents(positions, actions, 1, cfg.num_agents, cfg.grid_size)
                => draws[i] = 0}
    ELSE {[i \in 1..cfg.num_agents |-> 0]}

RECURSIVE MoistureLoop(_, _, _, _, _, _)
\* the loop over the agents again, for self.fuel_moisture: st is [pos, moist];
\* if self.mongodb_enabled and (old_r, old_c) != (r, c): the update at (r, c)
MoistureLoop(st, actions, i, n, gs, draws) ==
    IF i > Min(Len(actions), n) THEN st
    ELSE LET rc == ResolveMove(i, actions[i], st.pos, gs)
         IN  MoistureLoop([pos |-> [st.pos EXCEPT ![i] = rc],
                           moist |-> IF rc # st.pos[i]
                                     THEN _update_fuel_moisture_mongodb(st.moist, rc, draws[i])
                                     ELSE st.moist],
                          actions, i + 1, n, gs, draws)

\* self.fuel_moisture after the loop over the agents
MoisturePhase(moist, positions, actions, cfg, draws) ==
    IF cfg.mongodb_enabled
    THEN MoistureLoop([pos |-> positions, moist |-> moist], actions, 1,
                      cfg.num_agents, cfg.grid_size, draws).moist
    ELSE moist

(***************************************************************************)
(* ForestFireEnv.step, phase 2: fire spread, from a snapshot of the Fire   *)
(* cells (fire_positions), applied after all draws (new_fires).            *)
(***************************************************************************)
\* the (fire cell, Tree neighbour) pairs a draw is made for
SpreadPairs(g, gs) ==
    UNION {{<<f, n>> : n \in {m \in Neighbors4(f, gs) : g[m] = 1}} :
           f \in {c \in Cells(gs) : g[c] = 2}}

\* when nothing burns, one Tree cell ignites by itself
NewFires_Spontaneous(g, gs, base_prob, elev, moist, wind_dir, speed) ==
    LET pairs == SpreadPairs(g, gs)
        prob(p) == _calculate_fire_spread_probability(p[1], p[2], base_prob, elev,
                                                      moist, wind_dir, speed)
        sure == {p \in pairs : SampleOutcomes(prob(p)) = {TRUE}}
        open == {p \in pairs : SampleOutcomes(prob(p)) = {TRUE, FALSE}}
    IN  IF Count(g, 2) = 0 /\ Count(g, 1) > 0
        THEN {{<<t, t>>} : t \in {c \in Cells(gs) : g[c] = 1}}
        ELSE {sure \cup x : x \in SUBSET open}

\* the values new_fires can have, as sets of (source, target) pairs: one
\* entry of the list per successful draw
NewFires(g, gs, base_prob, elev, moist, wind_dir, speed) ==
    LET pairs == SpreadPairs(g, gs)
        prob(p) == _calculate_fire_spread_probability(p[1], p[2], base_prob, elev,
                                                      moist, wind_dir, speed)
        sure == {p \in pairs : SampleOutcomes(prob(p)) = {TRUE}}
        open == {p \in pairs : SampleOutcomes(prob(p)) = {TRUE, FALSE}}
    IN  {sure \cup x : x \in SUBSET open}

\* the fire also takes the Tree cells next to a cell it has just taken
ApplyNewFires_Cascade(g, new_fires) ==
    [c \in DOMAIN g |->
        IF \/ \E p \in new_fires : p[2] = c
           \/ g[c] = 1 /\ \E p \in new_fires :
                              Abs(p[2][1] - c[1]) + Abs(p[2][2] - c[2]) = 1
        THEN 2 ELSE g[c]]

\* for nf_r, nf_c in new_fires: self.grid[nf_r, nf_c] = 2
ApplyNewFires(g, new_fires) ==
    [c \in DOMAIN g |-> IF \E p \in new_fires : p[2] = c THEN 2 ELSE g[c]]

\* -5 for every cell set on fire, whatever the number of draws that hit it
SpreadPenalty_Cells(new_fires) == -50 * Cardinality({p[2] : p \in new_fires})

\* reward -= 5 for every draw that succeeds
SpreadPenalty(new_fires) == -50 * Cardinality(new_fires)

(***************************************************************************)
(* ForestFireEnv.step, phase 3: termination, reward, observation.          *)
(***************************************************************************)
Terminated(active_fires) == active_fires = 0

\* the bonus of +50 in place of +100
SuccessBonus_Half(active_fires) == IF active_fires = 0 THEN 500 ELSE 0

\* if active_fires == 0: terminated = True; reward += 100
SuccessBonus(active_fires) == IF active_fires = 0 THEN 1000 ELSE 0

\* truncated is set to False at entry and never assigned again
Truncated(count) == FALSE

TreeReward(trees_remaining) == trees_remaining

\* no marker is written over a burning cell
ObsGrid_FireOnTop(g, positions) ==
    [c \in DOMAIN g |->
        IF g[c] # 2 /\ \E i \in DOMAIN positions : positions[i] = c
        THEN 2 + CHOOSE i \in DOMAIN positions :
                    /\ positions[i] = c
                    /\ \A j \in DOMAIN positions : positions[j] = c => j <= i
        ELSE g[c]]

\* the agent markers 3 + i on a copy of the grid; a later agent overwrites
\* an earlier one on the same cell, an agent outside the grid is skipped
ObsGrid(g, positions) ==
    [c \in DOMAIN g |->
        IF \E i \in DOMAIN positions : positions[i] = c
        THEN 2 + CHOOSE i \in DOMAIN positions :
                    /\ positions[i] = c
                    /\ \A j \in DOMAIN positions : positions[j] = c => j <= i
        ELSE g[c]]

\* the markers written into self.grid itself, without the copy
_get_obs_NoCopy(g, positions) ==
    [self_grid |-> ObsGrid(g, positions), obs |-> ObsGrid(g, positions)]

\* _get_obs: self_grid is self.grid after the call, obs the returned grid
_get_obs(g, positions) == [self_grid |-> g, obs |-> ObsGrid(g, positions)]

\* every move resolved against the positions at the start of the step, the
\* actuators after that
AgentPhase_Atomic(g, positions, actions, cfg) ==
    AgentLoop([pos |-> [i \in DOMAIN positions |->
                          IF i <= Len(actions)
                          THEN ResolveMove(i, actions[i], positions, cfg.grid_size)
                          ELSE positions[i]],
               grid |-> g, reward |-> 0],
              [i \in DOMAIN actions |-> IF actions[i] \in 0..3 THEN 4 ELSE actions[i]],
              1, cfg.num_agents, cfg.grid_size)

\* every Suppress is rewarded for the cells of its block that burned when
\* the step began, whether or not another agent has put them out since
AgentPhase_Snapshot(g, positions, actions, cfg) ==
    LET a == AgentLoop([pos |-> positions, grid |-> g, reward |-> 0], actions, 1,
                       cfg.num_agents, cfg.grid_size)
        fires_extinguished ==
            Cardinality({ic \in (1..Min(Len(actions), cfg.num_agents)) \X Cells(cfg.grid_size) :
                            /\ actions[ic[1]] = 5
                            /\ ic[2] \in Block3x3(a.pos[ic[1]], cfg.grid_size)
                            /\ g[ic[2]] = 2})
    IN  [a EXCEPT !.reward = SuppressReward(fires_extinguished)
                             + FirebreakReward(Count(g, 1) - Count(a.grid, 1))]

\* phase 1 of step(actions): [pos, grid, reward] after the loop over the agents
AgentPhase(g, positions, actions, cfg) ==
    AgentLoop([pos |-> positions, grid |-> g, reward |-> 0], actions, 1,
              cfg.num_agents, cfg.grid_size)

\* the fires are counted, and termination decided, before the new fires
\* are applied
SpreadPhase_CountFirst(a, count, new_fires) ==
    LET g2 == ApplyNewFires(a.grid, new_fires)
        active_fires == Count(a.grid, 2)
        trees_remaining == Count(g2, 1)
        o == _get_obs(g2, a.pos)
    IN  [grid |-> o.self_grid,
         agent_positions |-> a.pos,
         steps_count |-> count,
         ret |-> [obs |-> o.obs,
                  reward |-> a.reward + SpreadPenalty(new_fires)
                             + SuccessBonus(active_fires)
                             + TreeReward(trees_remaining),
                  terminated |-> Terminated(active_fires),
                  truncated |-> Truncated(count),
                  info |-> [active_fires |-> active_fires,
                            trees_remaining |-> trees_remaining,
                            steps |-> count]]]

\* phases 2 and 3 of step(actions), with new_fires as drawn, on the result a
\* of phase 1: the fields after the call and the returned tuple
SpreadPhase(a, count, new_fires) ==
    LET g2 == ApplyNewFires(a.grid, new_fires)
        active_fires == Count(g2, 2)
        trees_remaining == Count(g2, 1)
        o == _get_obs(g2, a.pos)
    IN  [grid |-> o.self_grid,
         agent_positions |-> a.pos,
         steps_count |-> count,
         ret |-> [obs |-> o.obs,
                  reward |-> a.reward + SpreadPenalty(new_fires)
                             + SuccessBonus(active_fires)
                             + TreeReward(trees_remaining),
                  terminated |-> Terminated(active_fires),
                  truncated |-> Truncated(count),
                  info |-> [active_fires |-> active_fires,
                            trees_remaining |-> trees_remaining,
                            steps |-> count]]]

(***************************************************************************)
(* ForestFireEnv.reset: the values its random draws can give.              *)
(***************************************************************************)
\* round(10^20 / (sqrt(k) + 0.1) ** 2), the weight 1 / distance**2 of a
\* control point at squared grid distance k (distance = sqrt(k) + 0.1), for
\* the squared distances of a grid up to 4x4
InverseDistanceWeight(k) ==
    CASE k = 0 -> <<0, 0, 0, 0, 0, 100>>
      [] k = 1 -> <<3719, 7355, 991, 4628, 8264>>
      [] k = 2 -> <<2062, 4459, 6551, 3981, 4361>>
      [] k = 4 -> <<7166, 5124, 9614, 5736, 2267>>
      [] k = 5 -> <<8759, 1984, 7997, 4369, 1832>>
      [] k = 8 -> <<2098, 2918, 4921, 875, 1166>>
      [] k = 9 -> <<9761, 6742, 2632, 5827, 1040>>
      [] k = 10 -> <<2606, 9278, 7270, 6327, 939>>
      [] k = 13 -> <<4686, 4662, 2876, 2732, 728>>
      [] k = 18 -> <<4108, 1979, 7613, 2640, 530>>

\* the weight of the control point p = (px, py, h) at cell c = (i, j)
Weight(c, p) ==
    InverseDistanceWeight((c[1] - p[1]) * (c[1] - p[1]) + (c[2] - p[2]) * (c[2] - p[2]))

RECURSIVE WeightSums(_, _, _, _)
\* <<weighted_sum, total_weight>> after the control points from the k-th;
\* the heights are in ten-thousandths
WeightSums(c, control_points, k, sums) ==
    IF k > Len(control_points) \/ Len(sums[1]) < 0 THEN sums
    ELSE LET weight == Weight(c, control_points[k])
         IN  WeightSums(c, control_points, k + 1,
                        <<BigAdd(sums[1], BigScale(weight, control_points[k][3])),
                          BigAdd(sums[2], weight)>>)

\* elevation[i, j] = weighted_sum / total_weight, in units of 10^-16 and
\* rounded down: the value of which the float64 of the code holds the first
\* 15 to 16 digits
Interpolate(c, control_points) ==
    LET sums == WeightSums(c, control_points, 1, <<<<>>, <<>>>>)
    IN  BigDiv(sums[1], BigScale(sums[2], 10000), 16)

RECURSIVE Interpolated(_, _, _)
\* the interpolation of the cells of a grid, row by row: a sequence of
\* pairs <<cell, height>>
Interpolated(gs, control_points, n) ==
    IF n = gs * gs THEN <<>>
    ELSE LET c == <<n \div gs, n % gs>>
         IN  <<<<c, Interpolate(c, control_points)>>>>
             \o Interpolated(gs, control_points, n + 1)

RECURSIVE BigExtreme(_, _, _, _)
\* elevation.min() (smallest) or elevation.max() of the heights from the
\* n-th
BigExtreme(raw, n, best, smallest) ==
    IF n > Len(raw) THEN best
    ELSE BigExtreme(raw, n + 1,
                    IF (IF smallest THEN BigLeq(raw[n][2], best) ELSE BigLeq(best, raw[n][2]))
                    THEN raw[n][2] ELSE best,
                    smallest)

RECURSIVE NormalisedFrom(_, _, _, _)
NormalisedFrom(raw, n, lo, range) ==
    IF n > Len(raw) THEN <<>>
    ELSE <<<<raw[n][1], BigDiv(BigSub(raw[n][2], lo), range, 16)>>>>
         \o NormalisedFrom(raw, n + 1, lo, range)

\* (elevation - min) / (max - min + 1e-6) after the interpolation, in
\* units of 10^-16: a sequence of pairs <<cell, height>>
Normalised(gs, control_points) ==
    LET raw == Interpolated(gs, control_points, 0)
        lo == BigExtreme(raw, 2, raw[1][2], TRUE)
        hi == BigExtreme(raw, 2, raw[1][2], FALSE)
    IN  NormalisedFrom(raw, 1, lo, BigAdd(BigSub(hi, lo), <<0, 0, 100>>))

RECURSIVE ElevationFrom(_, _)
ElevationFrom(normalised, n) ==
    IF n = Len(normalised) THEN normalised[n][1] :> AsFloat32(normalised[n][2])
    ELSE (normalised[n][1] :> AsFloat32(normalised[n][2]))
         @@ ElevationFrom(normalised, n + 1)

\* _generate_elevation_map for the control points drawn: the normalised
\* interpolation as float32 (elevation.astype(np.float32)), in
\* hundred-millionths
_generate_elevation_map(gs, control_points) ==
    ElevationFrom(Normalised(gs, control_points), 1)

\* high_elevation_mask = self.elevation > 0.8, a comparison of float32:
\* float32(0.8) is 0.8000000119 and the float32 above it 0.8000000715
high_elevation_mask(gs, elev) ==
    UNION {IF elev[c] > 80000001 THEN {c} ELSE {} : c \in Cells(gs)}

\* moisture = clip(15 + elevation * 15 + noise, 5, 35), noise drawn per
\* cell, to the nearest thousandth of a percent
_generate_fuel_moisture_map(elev, noise) ==
    [c \in DOMAIN elev |->
        Clip(15000 + (15 * elev[c] + 50000) \div 100000 + noise[c], 5000, 35000)]

\* control points of a 3x3 grid brought into a grid of size gs
\* (integers(0, grid_size) draws x and y in 0 .. grid_size - 1)
ControlPoints(gs, points) ==
    [k \in DOMAIN points |-> <<Min(points[k][1], gs - 1), Min(points[k][2], gs - 1),
                               points[k][3]>>]

\* outcomes of the draws of reset(): the five control points of
\* _generate_elevation_map (x, y, height in ten-thousandths), the
\* uniform(-5, 5) noise of every cell (thousandths of a percent), and
\* uniform(0, 20), uniform(0, 360) for the wind (tenths of a km/h, degrees).
\* In a 3x3 grid: a peak in the corner (0, 0); a ridge along the left
\* column; a peak on the centre cell, the only cell a fire can be drawn
\* on, and no wind; a flat map, where every cell can hold a tree; a peak
\* in the corner (2, 2) with the wind across.
ResetScenario(k, gs) ==
    CASE k = 1 ->
           [control_points |-> ControlPoints(gs, <<<<0, 0, 9990>>, <<2, 2, 0>>, <<0, 0, 9990>>,
                                                  <<2, 2, 0>>, <<1, 1, 4995>>>>),
            noise |-> [c \in Cells(gs) |-> -5000],
            wind_speed |-> 100, wind_direction |-> 0]
      [] k = 2 ->
           [control_points |-> ControlPoints(gs, <<<<0, 2, 3000>>, <<2, 0, 9750>>, <<0, 0, 4750>>,
                                                  <<2, 0, 3250>>, <<1, 2, 250>>>>),
            noise |-> [c \in Cells(gs) |-> 4999 - 2500 * c[2] - 1250 * (c[1] % 2)],
            wind_speed |-> 190, wind_direction |-> 225]
      [] k = 3 ->
           [control_points |-> ControlPoints(gs, <<<<1, 1, 9000>>, <<0, 0, 1000>>, <<2, 2, 1000>>,
                                                  <<0, 2, 1000>>, <<2, 0, 1000>>>>),
            noise |-> [c \in Cells(gs) |-> -5000],
            wind_speed |-> 0, wind_direction |-> 90]
      [] k = 4 ->
           [control_points |-> ControlPoints(gs, <<<<0, 1, 5000>>, <<2, 0, 5000>>, <<1, 1, 5000>>,
                                                  <<1, 2, 5000>>, <<2, 2, 5000>>>>),
            noise |-> [c \in Cells(gs) |-> 1234],
            wind_speed |-> 37, wind_direction |-> 200]
      [] OTHER ->
           [control_points |-> ControlPoints(gs, <<<<2, 2, 8000>>, <<0, 0, 2000>>, <<2, 1, 6000>>,
                                                  <<0, 1, 1000>>, <<1, 1, 4000>>>>),
            noise |-> [c \in Cells(gs) |-> 2500 * c[1] - 3000],
            wind_speed |-> 64, wind_direction |-> 315]

\* the draws of reset() the model follows: the first MaxResetDraws
\* outcomes above
ResetDraws(gs) == {ResetScenario(k, gs) : k \in 1..MaxResetDraws}

\* self.elevation = self._generate_elevation_map(): the maps of the draws
\* above, as pairs <<grid size, control points, map>>
ElevationMaps ==
    UNION {{<<gs, points, _generate_elevation_map(gs, points)>> :
               points \in {draws.control_points : draws \in ResetDraws(gs)}} :
           gs \in 1..3}

\* the map of the table for a grid size and control points
ElevationMap(gs, points) ==
    (CHOOSE e \in ElevationMaps : e[1] = gs /\ e[2] = points)[3]

\* _fetch_real_weather without an api_key: {'wind_speed': 5.0, 'wind_direction': 0.0}
_fetch_real_weather == [wind_speed |-> 50, wind_direction |-> 0]

\* the wind reset() sets: the weather fetched, or the two uniform draws
Wind(cfg, draws) ==
    IF cfg.use_real_weather THEN _fetch_real_weather
    ELSE [wind_speed |-> draws.wind_speed, wind_direction |-> draws.wind_direction]

\* tree_mask = random((gs, gs)) < initial_trees: the masks the draw can give
TreeMasks(gs, initial_trees) ==
    IF initial_trees <= 0 THEN {{}}
    ELSE IF initial_trees >= 1000 THEN {Cells(gs)}
    ELSE SUBSET Cells(gs)

\* trees on every cell that is not above 0.8, whatever the mask drawn
PlantTrees_Unmasked(gs, tree_mask, high) ==
    [c \in Cells(gs) |-> IF c \notin high THEN 1 ELSE 0]

\* self.grid after step 1 of reset: trees on tree_mask, none where the
\* elevation is above 0.8 (tree_mask[high_elevation_mask] = False)
PlantTrees(gs, tree_mask, high) ==
    [c \in Cells(gs) |-> IF c \in tree_mask /\ c \notin high THEN 1 ELSE 0]

Range(f) == {f[x] : x \in DOMAIN f}

RECURSIVE FillDefault(_, _)
\* while len(agent_positions) < num_agents: append((0, len(agent_positions)))
FillDefault(positions, n) ==
    IF Len(positions) >= n THEN positions
    ELSE FillDefault(Append(positions, <<0, Len(positions)>>), n)

\* the agent positions after step 2 of reset: the random loop places k
\* distinct cells (all the agents, or fewer when the 100 attempts run out),
\* the rest are filled with (0, k)
AgentPlacements(gs, n) ==
    IF n = 0 THEN {<<>>}
    ELSE UNION {{FillDefault(p, n) :
                   p \in {q \in [1..k -> Cells(gs)] :
                            \A i, j \in 1..k : i # j => q[i] # q[j]}} :
                k \in 1..Min(n, gs * gs)}

\* the cells integers(1, gs - 1) can draw
Interior(gs) == {c \in Cells(gs) : c[1] >= 1 /\ c[1] <= gs - 2 /\ c[2] >= 1 /\ c[2] <= gs - 2}

\* the sets of cells step 3 of reset can set on fire: Tree cells without an
\* agent, initial_fires of them, or fewer when the 200 attempts run out
\* (which takes a cell whose draw fails)
FirePlacements(g, positions, gs, initial_fires) ==
    LET avail == {c \in Interior(gs) : g[c] = 1 /\ c \notin Range(positions)}
    IN  {k \in SUBSET avail :
            /\ Cardinality(k) <= initial_fires
            /\ \/ Cardinality(k) = initial_fires
               \/ k # {}
               \/ avail # Interior(gs)}

\* the initial tree count of the episode: the Tree cells reset() leaves
InitialTreeCount(g) == Count(g, 1)

Ignite(g, k) == [c \in DOMAIN g |-> IF c \in k THEN 2 ELSE g[c]]

(***************************************************************************)
(* The objects of the model and their constructor arguments.               *)
(***************************************************************************)
\* ForestFireEnv(grid_size, fire_spread_prob, initial_trees, initial_fires,
\* num_agents, use_real_weather) without api_key, and self.mongodb_enabled
\* as _init_mongodb_connection leaves it
ForestFireConfigs ==
    {[grid_size |-> 3, fire_spread_prob |-> p, initial_trees |-> 1000,
      initial_fires |-> 1, num_agents |-> 1, use_real_weather |-> FALSE,
      mongodb_enabled |-> FALSE] : p \in {0, 100, 1000}}
    \cup
    {[grid_size |-> 3, fire_spread_prob |-> 100, initial_trees |-> 0,
      initial_fires |-> 0, num_agents |-> 2, use_real_weather |-> FALSE,
      mongodb_enabled |-> FALSE],
     [grid_size |-> 1, fire_spread_prob |-> 100, initial_trees |-> 600,
      initial_fires |-> 0, num_agents |-> 2, use_real_weather |-> TRUE,
      mongodb_enabled |-> FALSE],
     [grid_size |-> 2, fire_spread_prob |-> 100, initial_trees |-> 1000,
      initial_fires |-> 1, num_agents |-> 1, use_real_weather |-> FALSE,
      mongodb_enabled |-> FALSE],
     [grid_size |-> 2, fire_spread_prob |-> 100, initial_trees |-> 1000,
      initial_fires |-> 0, num_agents |-> 1, use_real_weather |-> FALSE,
      mongodb_enabled |-> TRUE]}

\* the objects of SpecSuppress: those above with a fire that spreads with
\* fire_spread_prob = 0.1, and one with two agents and a fire that does not
\* spread
SuppressConfigs ==
    {c \in ForestFireConfigs : c.initial_fires = 1 /\ c.fire_spread_prob = 100}
    \cup
    {[grid_size |-> 3, fire_spread_prob |-> 0, initial_trees |-> 1000,
      initial_fires |-> 1, num_agents |-> 2, use_real_weather |-> FALSE,
      mongodb_enabled |-> FALSE]}

\* ForestGuardianEnv(grid_size, num_agents): on the 2x2 grid every cell is a
\* neighbour of every other, on the 3x3 grid the fire has cells out of reach
GuardianConfigs == {[grid_size |-> 2, num_agents |-> 2], [grid_size |-> 3, num_agents |-> 1]}

\* the action lists step() is called with
Actions == 0..6

ActionLists(n) == [1..n -> Actions]

\* action lists step() is not meant for: an id outside 0..6 (7), a list
\* shorter than num_agents, a list longer than num_agents
InvalidActionLists(n) ==
    {l \in [1..n -> {5, 7}] : \E i \in 1..n : l[i] = 7}
    \cup {[i \in 1..(n - 1) |-> 3], [i \in 1..(n + 1) |-> 3]}

\* self.water_tanks = [999] * num_agents, self.max_water = 999
max_water == 999

WaterTanks(n) == [i \in 1..n |-> 999]

\* the state after the constructor, for an object of one of the two sets
Constructed(forest_fire, guardian) ==
    /\ \/ variant = "ForestFireEnv" /\ config \in forest_fire
       \/ variant = "ForestGuardianEnv" /\ config \in guardian
    /\ called = "__init__"
    /\ ret = None
    /\ grid = None
    /\ elevation = None
    /\ fuel_moisture = None
    /\ wind_direction = 0
    /\ wind_speed = 50
    /\ agent_positions = <<>>
    /\ steps_count = 0
    /\ initial_tree_count = None
    /\ water_tanks = IF variant = "ForestFireEnv" THEN WaterTanks(config.num_agents)
                     ELSE None
    /\ drawn_from = None
    /\ np_state = None
    /\ nb_agent_positions = None
    /\ steps = 0

Init == Constructed(ForestFireConfigs, GuardianConfigs)

InitSuppress == Constructed(SuppressConfigs, {c \in GuardianConfigs : c.grid_size = 3})

\* what a call that raises leaves in ret: the exception, no value
Raises(exception) == [raises |-> exception]

\* np_random.integers(1, grid_size - 1) raises ValueError (low >= high)
IntegersRaises(low, high) == low >= high

\* the fields and the returned value reset() can leave, for every outcome
\* of its draws
ResetOutcomes(cfg) ==
    UNION {LET elev == ElevationMap(cfg.grid_size, draws.control_points)
               high == high_elevation_mask(cfg.grid_size, elev)
           IN  UNION {UNION {LET g1 == PlantTrees(cfg.grid_size, mask, high)
                             IN  {[elevation |-> elev,
                                   fuel_moisture |-> _generate_fuel_moisture_map(elev, draws.noise),
                                   wind_speed |-> Wind(cfg, draws).wind_speed,
                                   wind_direction |-> Wind(cfg, draws).wind_direction,
                                   agent_positions |-> positions,
                                   grid |-> _get_obs(Ignite(g1, k), positions).self_grid,
                                   ret |-> [obs |-> _get_obs(Ignite(g1, k), positions).obs]] :
                                  k \in FirePlacements(g1, positions, cfg.grid_size,
                                                       cfg.initial_fires)} :
                             positions \in AgentPlacements(cfg.grid_size, cfg.num_agents)} :
                      mask \in TreeMasks(cfg.grid_size, cfg.initial_trees)} :
           draws \in ResetDraws(cfg.grid_size)}

\* the outcomes of reset() for every object of the model
ResetTable == {<<cfg, ResetOutcomes(cfg)>> : cfg \in ForestFireConfigs \cup SuppressConfigs}

\* ForestFireEnv.reset() when it returns; it can be called in every state
Reset ==
    /\ variant = "ForestFireEnv"
    /\ config.initial_fires > 0 => ~IntegersRaises(1, config.grid_size - 1)
    /\ \E o \in (CHOOSE p \in ResetTable : p[1] = config)[2] :
          /\ elevation' = o.elevation
          /\ fuel_moisture' = o.fuel_moisture
          /\ wind_speed' = o.wind_speed
          /\ wind_direction' = o.wind_direction
          /\ agent_positions' = o.agent_positions
          /\ grid' = o.grid
          /\ initial_tree_count' = InitialTreeCount(grid')
          /\ ret' = o.ret
    /\ steps_count' = 0
    /\ called' = "reset"
    /\ drawn_from' = "self.np_random"
    /\ UNCHANGED <<variant, config, water_tanks, nb_vars>>

\* ForestFireEnv.reset() when the first draw of a fire position raises: the
\* fields are those of steps 1 and 2, nothing is returned
ResetRaises ==
    /\ variant = "ForestFireEnv"
    /\ config.initial_fires > 0
    /\ IntegersRaises(1, config.grid_size - 1)
    /\ \E draws \in ResetDraws(config.grid_size) :
         LET elev == ElevationMap(config.grid_size, draws.control_points)
             high == high_elevation_mask(config.grid_size, elev)
         IN  \E mask \in TreeMasks(config.grid_size, config.initial_trees),
                positions \in AgentPlacements(config.grid_size, config.num_agents) :
                  /\ elevation' = elev
                  /\ fuel_moisture' = _generate_fuel_moisture_map(elev, draws.noise)
                  /\ wind_speed' = Wind(config, draws).wind_speed
                  /\ wind_direction' = Wind(config, draws).wind_direction
                  /\ agent_positions' = positions
                  /\ grid' = PlantTrees(config.grid_size, mask, high)
                  /\ initial_tree_count' = InitialTreeCount(grid')
    /\ steps_count' = 0
    /\ ret' = Raises("ValueError")
    /\ called' = "reset raised"
    /\ drawn_from' = "self.np_random"
    /\ UNCHANGED <<variant, config, water_tanks, nb_vars>>

\* the calls after which self.grid and self.agent_positions are those of a
\* reset(): step() runs its loops on them
HasEpisode == called \in {"reset", "reset raised", "step"}

\* a step in which the wind also turns by 90 degrees
StepWith_Veering(inputs) ==
    /\ variant = "ForestFireEnv"
    /\ HasEpisode
    /\ steps_count < MaxCalls
    /\ \E actions \in inputs : \E draws \in UAVDraws(config, agent_positions, actions) :
         LET a == AgentPhase(grid, agent_positions, actions, config)
             moist == MoisturePhase(fuel_moisture, agent_positions, actions, config, draws)
         IN  \E new_fires \in NewFires(a.grid, config.grid_size, config.fire_spread_prob,
                                       elevation, moist, wind_direction,
                                       wind_speed) :
                LET s == SpreadPhase(a, steps_count + 1, new_fires)
                IN  /\ grid' = s.grid
                    /\ agent_positions' = s.agent_positions
                    /\ steps_count' = s.steps_count
                    /\ fuel_moisture' = moist
                    /\ ret' = s.ret
    /\ called' = "step"
    /\ drawn_from' = "self.np_random"
    /\ wind_direction' = (wind_direction + 90) % 360
    /\ UNCHANGED <<variant, config, elevation,
                   wind_speed, initial_tree_count, water_tanks, nb_vars>>

\* ForestFireEnv.step(actions) for an action list of inputs, on the fields of
\* a reset()
StepWith(inputs) ==
    /\ variant = "ForestFireEnv"
    /\ HasEpisode
    /\ steps_count < MaxCalls
    /\ \E actions \in inputs : \E draws \in UAVDraws(config, agent_positions, actions) :
         LET a == AgentPhase(grid, agent_positions, actions, config)
             moist == MoisturePhase(fuel_moisture, agent_positions, actions, config, draws)
         IN  \E new_fires \in NewFires(a.grid, config.grid_size, config.fire_spread_prob,
                                       elevation, moist, wind_direction,
                                       wind_speed) :
                LET s == SpreadPhase(a, steps_count + 1, new_fires)
                IN  /\ grid' = s.grid
                    /\ agent_positions' = s.agent_positions
                    /\ steps_count' = s.steps_count
                    /\ fuel_moisture' = moist
                    /\ ret' = s.ret
    /\ called' = "step"
    /\ drawn_from' = "self.np_random"
    /\ UNCHANGED <<variant, config, elevation, wind_direction,
                   wind_speed, initial_tree_count, water_tanks, nb_vars>>

\* if not isinstance(actions, (list, np.ndarray)): actions = [actions]
ScalarAsList(action) == <<action>>

\* what step(actions) raises on an object reset() has not been called on:
\* self.agent_positions[i] of the empty list when the loop over the agents
\* has an action to run on, self.grid.copy() of None in _get_obs otherwise
StepError(actions, n) ==
    IF Min(Len(actions), n) > 0 THEN "IndexError" ELSE "AttributeError"

\* ForestFireEnv.step(actions) before the first reset(): the step counter is
\* incremented, then the call raises
StepRaises ==
    /\ variant = "ForestFireEnv"
    /\ ~HasEpisode
    /\ steps_count < MaxCalls
    /\ \E actions \in ActionLists(config.num_agents)
                      \cup InvalidActionLists(config.num_agents)
                      \cup {ScalarAsList(action) : action \in Actions} :
         ret' = Raises(StepError(actions, config.num_agents))
    /\ steps_count' = steps_count + 1
    /\ called' = "step raised"
    /\ UNCHANGED <<variant, config, grid, elevation, fuel_moisture, wind_direction,
                   wind_speed, agent_positions, initial_tree_count, water_tanks,
                   drawn_from, nb_vars>>

\* ForestFireEnv.step(actions)
Step ==
    StepWith(ActionLists(config.num_agents) \cup InvalidActionLists(config.num_agents))

\* ForestFireEnv.step(action) with a single scalar action
StepScalar == StepWith({ScalarAsList(action) : action \in Actions})

\* ForestFireEnv.step(actions) of agents that only idle
StepIdle == StepWith({[i \in 1..config.num_agents |-> 4]})

(***************************************************************************)
(* ForestGuardianEnv (numba_env.py).  np_state is kept as its two discrete *)
(* channels, fire (CH_FIRE) and agents (CH_AGENTS); the terrain and the    *)
(* humidity channels are read only by the spread probability.              *)
(***************************************************************************)
\* for i in range(num_agents): state_grid[CH_AGENTS, r, c] = 1.0
AgentChannel(positions, gs) ==
    [c \in Cells(gs) |-> IF c \in Range(positions) THEN 1 ELSE 0]

\* nr, nc = r + dr, c + dc
PhysicsTarget(action, rc) ==
    IF action = 0 THEN <<rc[1] - 1, rc[2]>>
    ELSE IF action = 1 THEN <<rc[1] + 1, rc[2]>>
    ELSE IF action = 2 THEN <<rc[1], rc[2] - 1>>
    ELSE IF action = 3 THEN <<rc[1], rc[2] + 1>>
    ELSE rc

\* the boundary check is the only check: the agent moves to the target
PhysicsMove(i, action, positions, gs) ==
    LET t == PhysicsTarget(action, positions[i])
    IN  IF InBounds(t, gs) THEN t ELSE positions[i]

\* state_grid[CH_FIRE, r_min:r_max, c_min:c_max] = 0.0
PhysicsSuppress(fire, rc, gs) ==
    [c \in DOMAIN fire |-> IF c \in Block3x3(rc, gs) THEN 0 ELSE fire[c]]

RECURSIVE PhysicsAgents(_, _, _, _)
\* the loop over the agents of physics_step: st is [pos, fire]
PhysicsAgents(st, actions, i, gs) ==
    IF i > Len(actions) THEN st
    ELSE LET rc == PhysicsMove(i, actions[i], st.pos, gs)
         IN  PhysicsAgents([pos |-> [st.pos EXCEPT ![i] = rc],
                            fire |-> IF actions[i] = 5
                                     THEN PhysicsSuppress(st.fire, rc, gs)
                                     ELSE st.fire],
                           actions, i + 1, gs)

\* the cells physics_step draws for: not burning, with a burning cell among
\* the 8 neighbours, both read from state_grid (not from the copy fire_grid)
PhysicsTargets(fire, gs) ==
    {n \in Cells(gs) :
        /\ fire[n] = 0
        /\ \E c \in Block3x3(n, gs) : c # n /\ fire[c] = 1}

\* the draws are made on the grid that is written: a cell set on fire
\* takes the cells around it in the same call
PhysicsFireGrids_Cascade(fire, gs) ==
    {[c \in Cells(gs) |->
        IF c \in x \/ \E n \in Block3x3(c, gs) : n \in x THEN 1 ELSE fire[c]] :
        x \in SUBSET PhysicsTargets(fire, gs)}

\* prob = 0.05 * (1 - humidity) * (1 + 2 * slope) * (1 + wind_factor) lies
\* strictly between 0 and 1 for humidity in [0.2, 0.7), slope <= 1 and the
\* wind (0.2, 0.5) of step(): every draw can go either way
PhysicsFireGrids(fire, gs) ==
    {[c \in Cells(gs) |-> IF c \in x THEN 1 ELSE fire[c]] :
        x \in SUBSET PhysicsTargets(fire, gs)}

GuardianTruncated(count) == count >= MAX_STEPS

GuardianTerminated(fire_sum, gs) == fire_sum = 0 \/ 5 * fire_sum > 4 * gs * gs

GuardianBonus(fire_sum, gs) ==
    IF fire_sum = 0 THEN 10000
    ELSE IF 5 * fire_sum > 4 * gs * gs THEN -10000
    ELSE 0

\* ForestGuardianEnv.step after physics_step returned (a.pos, fire_grid)
GuardianResult(a, fire_grid, count, gs) ==
    LET current_fire_sum == Count(fire_grid, 1)
        state == [fire |-> fire_grid, agents |-> AgentChannel(a.pos, gs)]
    IN  [np_state |-> state,
         agent_positions |-> a.pos,
         steps |-> count,
         ret |-> [obs |-> state,
                  reward |-> -current_fire_sum + GuardianBonus(current_fire_sum, gs),
                  terminated |-> GuardianTerminated(current_fire_sum, gs),
                  truncated |-> GuardianTruncated(count),
                  info |-> [fire_intensity |-> current_fire_sum]]]

\* spaces.MultiDiscrete([6] * num_agents)
GuardianActions == 0..5

\* the fire channel after reset: start_fires = 3 draws of a cell
GuardianStartFires(gs) ==
    {[c \in Cells(gs) |-> IF c \in {f[1], f[2], f[3]} THEN 1 ELSE 0] :
        f \in [1..3 -> Cells(gs)]}

\* ForestGuardianEnv.reset(); it can be called in every state
GuardianReset ==
    /\ variant = "ForestGuardianEnv"
    /\ nb_agent_positions' = [i \in 1..config.num_agents |-> <<0, i - 1>>]
    /\ \E fire \in GuardianStartFires(config.grid_size) :
         np_state' = [fire |-> fire,
                      agents |-> AgentChannel(nb_agent_positions', config.grid_size)]
    /\ steps' = 0
    /\ ret' = [obs |-> np_state']
    /\ called' = "reset"
    /\ drawn_from' = "np.random"
    /\ UNCHANGED <<variant, config, ffe_vars>>

\* the calls after which self.np_state is that of a reset()
HasState == called \in {"reset", "step"}

\* ForestGuardianEnv.step(actions) on the state of a reset()
GuardianStep ==
    /\ variant = "ForestGuardianEnv"
    /\ HasState
    /\ steps < MaxCalls
    /\ \E actions \in [1..config.num_agents -> GuardianActions] :
         LET a == PhysicsAgents([pos |-> nb_agent_positions, fire |-> np_state.fire],
                                actions, 1, config.grid_size)
         IN  \E fire_grid \in PhysicsFireGrids(a.fire, config.grid_size) :
                LET s == GuardianResult(a, fire_grid, steps + 1, config.grid_size)
                IN  /\ np_state' = s.np_state
                    /\ nb_agent_positions' = s.agent_positions
                    /\ steps' = s.steps
                    /\ ret' = s.ret
    /\ called' = "step"
    /\ drawn_from' = "np.random"
    /\ UNCHANGED <<variant, config, ffe_vars>>

\* ForestGuardianEnv.step(actions) before the first reset(): self.steps is
\* incremented, then self.np_state (set by reset() only) raises
GuardianStepRaises ==
    /\ variant = "ForestGuardianEnv"
    /\ ~HasState
    /\ steps < MaxCalls
    /\ steps' = steps + 1
    /\ ret' = Raises("AttributeError")
    /\ called' = "step raised"
    /\ UNCHANGED <<variant, config, ffe_vars, drawn_from, np_state, nb_agent_positions>>

Next ==
    \/ Reset \/ ResetRaises \/ Step \/ StepScalar \/ StepRaises
    \/ GuardianReset \/ GuardianStep \/ GuardianStepRaises

Spec == Init /\ [][Next]_vars

\* the episodes of ForestFireEnv in which every agent idles in every step
NextIdle == Reset \/ ResetRaises \/ StepIdle

SpecIdle == Init /\ [][NextIdle]_vars

\* the same calls on the objects of SuppressConfigs and on the 3x3
\* ForestGuardianEnv
SpecSuppress == InitSuppress /\ [][Next]_vars

(***************************************************************************)
(* Vocabulary of the properties.                                           *)
(***************************************************************************)
IsForestFire == variant = "ForestFireEnv"
IsGuardian == variant = "ForestGuardianEnv"

\* P(actions, a, new_fires, s) for every call step(actions) of ForestFireEnv
\* the episode can make in the current state and every outcome of its draws: a is the
\* state after the agents, s the fields and the returned tuple
ForAllSteps(P(_, _, _, _)) ==
    (IsForestFire /\ HasEpisode /\ steps_count < MaxCalls) =>
    \A actions \in ActionLists(config.num_agents) :
    \A draws \in UAVDraws(config, agent_positions, actions) :
        LET a == AgentPhase(grid, agent_positions, actions, config)
            moist == MoisturePhase(fuel_moisture, agent_positions, actions, config, draws)
        IN  \A new_fires \in NewFires(a.grid, config.grid_size, config.fire_spread_prob,
                                      elevation, moist, wind_direction,
                                      wind_speed) :
                P(actions, a, new_fires, SpreadPhase(a, steps_count + 1, new_fires))

\* the same for ForestGuardianEnv: a is the state after the agents of
\* physics_step, s the fields and the returned tuple
ForAllGuardianSteps(P(_, _, _)) ==
    (IsGuardian /\ HasState /\ steps < MaxCalls) =>
    \A actions \in [1..config.num_agents -> GuardianActions] :
        LET a == PhysicsAgents([pos |-> nb_agent_positions, fire |-> np_state.fire],
                               actions, 1, config.grid_size)
        IN  \A fire_grid \in PhysicsFireGrids(a.fire, config.grid_size) :
                P(actions, a, GuardianResult(a, fire_grid, steps + 1, config.grid_size))

Distinct(positions) ==
    \A i, j \in DOMAIN positions : i # j => positions[i] # positions[j]

Chebyshev(a, b) == Max(Abs(a[1] - b[1]), Abs(a[2] - b[2]))

Manhattan(a, b) == Abs(a[1] - b[1]) + Abs(a[2] - b[2])

(***************************************************************************)
(* C1: success termination.                                                *)
(***************************************************************************)
\* the reward of a step of ForestFireEnv without the success bonus
C1_Rest(a, new_fires, s) ==
    a.reward + SpreadPenalty(new_fires) + TreeReward(Count(s.grid, 1))

C1_ForestFire(actions, a, new_fires, s) ==
    /\ Count(s.grid, 2) = 0 =>
          s.ret.terminated /\ s.ret.reward = C1_Rest(a, new_fires, s) + 1000
    /\ Count(s.grid, 2) > 0 => s.ret.reward = C1_Rest(a, new_fires, s)

\* the bonus a step of ForestGuardianEnv returned is bonus (in tenths)
C1_Guardian(bonus) ==
    (IsGuardian /\ called = "step") =>
        /\ Count(np_state.fire, 1) = 0 =>
              ret.terminated /\ ret.reward = -Count(np_state.fire, 1) + bonus
        /\ Count(np_state.fire, 1) > 0 => ret.reward <= -Count(np_state.fire, 1)

\* C1 (as amended): when no cell burns after the fire-spread phase of step(),
\* the step returns terminated=True and its reward includes the success
\* bonus, +100 in ForestFireEnv and +1000 in ForestGuardianEnv; while a cell
\* still burns after that phase, the reward includes no success bonus.
C1_SuccessBonus == ForAllSteps(C1_ForestFire) /\ C1_Guardian(10000)

\* C1 (as stated): the success bonus is +100 in every environment.
C1_Original == ForAllSteps(C1_ForestFire) /\ C1_Guardian(1000)

\* a step of ForestFireEnv put out the last fire and returned the bonus
C1_Witness ==
    /\ IsForestFire /\ called = "step"
    /\ Count(grid, 2) = 0 /\ ret.terminated /\ ret.reward >= 1100

(***************************************************************************)
(* C2: failure termination.                                                *)
(***************************************************************************)
\* C2 (as stated): when the initial tree count of the episode is > 0, a step
\* after which the destroyed fraction
\* (initial_tree_count - trees_remaining) / initial_tree_count is at least
\* 0.8 returns terminated=True.
C2_FailureTermination ==
    (IsForestFire /\ called = "step" /\ initial_tree_count > 0
       /\ 5 * (initial_tree_count - Count(grid, 1)) >= 4 * initial_tree_count)
    => ret.terminated

(***************************************************************************)
(* C3: truncation.                                                         *)
(***************************************************************************)
\* C3 (as stated): the step() call that brings the step counter to the
\* step limit returns truncated=True, even while fires remain.
C3_Truncation ==
    /\ (IsForestFire /\ called = "step" /\ steps_count >= max_steps) => ret.truncated
    /\ (IsGuardian /\ called = "step" /\ steps >= MAX_STEPS) => ret.truncated

(***************************************************************************)
(* C4: terminated and truncated are exclusive.                             *)
(***************************************************************************)
\* C4 (as stated): no step() returns terminated=True and truncated=True
\* together.
C4_Exclusive == called = "step" => ~(ret.terminated /\ ret.truncated)

(***************************************************************************)
(* C5: positions inside the grid.                                          *)
(***************************************************************************)
\* C5 (as stated): after reset() and after every step(), every agent
\* position lies inside the grid.
C5_InBounds ==
    /\ (IsForestFire /\ called \in {"reset", "step"}) =>
          \A i \in DOMAIN agent_positions : InBounds(agent_positions[i], config.grid_size)
    /\ (IsGuardian /\ HasState) =>
          \A i \in DOMAIN nb_agent_positions :
              InBounds(nb_agent_positions[i], config.grid_size)

(***************************************************************************)
(* C6: no two agents in one cell.                                          *)
(***************************************************************************)
\* C6 (as stated): a step() taken with pairwise distinct agent positions
\* leaves the agent positions pairwise distinct.
C6_NoSharedCell ==
    [][(called # "__init__" /\ called' = "step") =>
          /\ (IsForestFire /\ Distinct(agent_positions)) => Distinct(agent_positions')
          /\ (IsGuardian /\ Distinct(nb_agent_positions)) => Distinct(nb_agent_positions')
      ]_vars

(***************************************************************************)
(* C7: resolution of the moves.                                            *)
(***************************************************************************)
\* the cell agent i is commanded to, and whether an agent stands on it when
\* agent i is processed: the agents before i have moved, the others not
C7_Target(actions, i) == ProposedMove(actions[i], agent_positions[i], config.grid_size)

C7_Blocked(actions, s, i) ==
    \E j \in DOMAIN agent_positions :
        /\ j # i
        /\ C7_Target(actions, i) = IF j < i THEN s.agent_positions[j]
                                   ELSE agent_positions[j]

C7_Step(actions, a, new_fires, s) ==
    \A i \in DOMAIN agent_positions :
        s.agent_positions[i] = IF C7_Blocked(actions, s, i) THEN agent_positions[i]
                               ELSE C7_Target(actions, i)

\* C7 (as amended): within one step() of ForestFireEnv the agents are
\* processed in index order and the collision rule for agent i is evaluated
\* against the positions at that moment: the new positions of the agents
\* before i and the pre-step positions of the agents after i.  A blocked
\* agent stays; otherwise it takes the commanded cell, which can be a cell a
\* lower-indexed agent has left in the same step.
C7_SequentialResolution == ForAllSteps(C7_Step)

\* C7 (as stated): an agent that moves never enters a cell that another
\* agent occupied at the start of the step.
C7_Original ==
    [][(IsForestFire /\ called \in {"reset", "step"} /\ called' = "step") =>
          \A i, j \in DOMAIN agent_positions :
              (i # j /\ agent_positions'[i] # agent_positions[i])
              => agent_positions'[i] # agent_positions[j]
      ]_vars

\* after a step, the second agent can follow the first one into the cell the
\* first one leaves
C7_Witness ==
    /\ IsForestFire /\ called = "step" /\ steps_count < MaxCalls
    /\ Len(agent_positions) = 2
    /\ \E actions \in ActionLists(2) :
          LET a == AgentPhase(grid, agent_positions, actions, config)
          IN  a.pos[2] = agent_positions[1] /\ a.pos[1] # agent_positions[1]

(***************************************************************************)
(* C8: two-phase fire update.                                              *)
(***************************************************************************)
\* ForestFireEnv: a is the grid after the agents, on which fire_positions
\* is taken; a cell that burns after the step and did not burn in a was
\* Tree in a and has a cell of the snapshot at Manhattan distance 1
C8_ForestFire(actions, a, new_fires, s) ==
    \A c \in Cells(config.grid_size) :
        (a.grid[c] # 2 /\ s.grid[c] = 2) =>
            /\ a.grid[c] = 1 /\ grid[c] = 1
            /\ \E n \in Cells(config.grid_size) :
                  Manhattan(c, n) = 1 /\ a.grid[n] = 2

\* ForestGuardianEnv: a.fire is the fire channel after the agents, which
\* physics_step copies; a cell that burns after the step and did not burn in
\* a.fire has a cell of the snapshot at Chebyshev distance 1 and Manhattan
\* distance <= guardian_manhattan
C8_Guardian(guardian_manhattan, actions, a, s) ==
    \A c \in Cells(config.grid_size) :
        (a.fire[c] = 0 /\ s.np_state.fire[c] = 1) =>
            \E n \in Cells(config.grid_size) :
                /\ Chebyshev(c, n) = 1
                /\ Manhattan(c, n) <= guardian_manhattan
                /\ a.fire[n] = 1

C8_GuardianAmended(actions, a, s) == C8_Guardian(2, actions, a, s)

C8_GuardianOriginal(actions, a, s) == C8_Guardian(1, actions, a, s)

\* C8 (as amended): in one step(), every cell that catches fire is a
\* neighbour of a cell that was burning in the snapshot taken at the start
\* of the fire-spread phase, and a cell ignited during this tick ignites no
\* further cell in the same tick.  The neighbours are the 4 orthogonal cells
\* in ForestFireEnv (Manhattan distance 1 per tick) and the 8 surrounding
\* cells in ForestGuardianEnv (Chebyshev distance 1, Manhattan distance up
\* to 2 per tick).
C8_TwoPhase == ForAllSteps(C8_ForestFire) /\ ForAllGuardianSteps(C8_GuardianAmended)

\* C8 (as stated): the neighbours are the 4 orthogonal cells in every
\* environment.
C8_Original == ForAllSteps(C8_ForestFire) /\ ForAllGuardianSteps(C8_GuardianOriginal)

\* a step of ForestFireEnv set a Tree cell on fire and left Tree cells
C8_Witness ==
    /\ IsForestFire /\ called = "step"
    /\ ret.info.active_fires >= 2 /\ ret.info.trees_remaining >= 1

\* a state of ForestGuardianEnv from which a step can spread the fire while
\* a cell has no burning cell around it: the cell a fire lit in this tick
\* would have to light
C8_GuardianReach ==
    /\ IsGuardian /\ HasState /\ steps < MaxCalls
    /\ \E c \in Cells(config.grid_size) : np_state.fire[c] = 1
    /\ \E c \in Cells(config.grid_size) :
          \A n \in Block3x3(c, config.grid_size) : np_state.fire[n] = 0

(***************************************************************************)
(* C9: cell-state exclusivity.                                             *)
(***************************************************************************)
C9_Moves(actions, a, new_fires, s) ==
    (\A i \in DOMAIN actions : actions[i] \in 0..4) =>
        /\ a.grid = grid
        /\ \A c \in Cells(config.grid_size) :
              s.grid[c] # grid[c] => (grid[c] = 1 /\ s.grid[c] = 2)

\* C9: in every reachable state of ForestFireEnv each terrain cell holds one
\* of Empty (0), Tree (1), Fire (2); the agent markers are in the returned
\* observation only, which shows the terrain everywhere else; and a step in
\* which the agents only move or idle changes no terrain cell except the
\* Tree cells the fire takes.
C9_CellStates ==
    /\ (IsForestFire /\ called \in {"reset", "step"}) =>
          /\ DOMAIN grid = Cells(config.grid_size)
          /\ \A c \in Cells(config.grid_size) :
                /\ grid[c] \in {0, 1, 2}
                /\ IF c \in Range(agent_positions) THEN ret.obs[c] >= 3
                   ELSE ret.obs[c] = grid[c]
    /\ ForAllSteps(C9_Moves)

\* after a step an agent stands on a Tree or Fire cell, which the
\* observation shows as the agent
C9_Witness ==
    /\ IsForestFire /\ called = "step"
    /\ \E i \in DOMAIN agent_positions :
          /\ InBounds(agent_positions[i], config.grid_size)
          /\ grid[agent_positions[i]] \in {1, 2}
          /\ ret.obs[agent_positions[i]] = 2 + i

(***************************************************************************)
(* C10: Suppress.                                                          *)
(***************************************************************************)
\* the cells holding fire_value within Chebyshev distance 1 of an agent
\* that suppresses
C10_Reached(fire_value, g, positions, actions) ==
    {c \in Cells(config.grid_size) :
        /\ g[c] = fire_value
        /\ \E i \in DOMAIN actions :
              actions[i] = 5 /\ Chebyshev(c, positions[i]) <= 1}

\* ForestFireEnv: the cells reached are Empty after the agents and after the
\* spread, and shown as Empty or as an agent; the reward of the agents is
\* +10 for every cell of the set reached, whatever the number of agents
\* that reach it, and -1 for every tree cut
C10_ForestFire(actions, a, new_fires, s) ==
    LET reached == C10_Reached(2, grid, agent_positions, actions)
        removed == {c \in Cells(config.grid_size) : grid[c] = 1 /\ a.grid[c] = 0}
    IN  /\ \A c \in reached :
              a.grid[c] = 0 /\ s.grid[c] = 0 /\ (s.ret.obs[c] = 0 \/ s.ret.obs[c] >= 3)
        /\ a.reward = 100 * Cardinality(reached) - 10 * Cardinality(removed)

\* ForestGuardianEnv: the cells reached are put out after the agents; the
\* reward is -0.1 per cell burning after the spread, +1000 when none burns
\* and -1000 when more than 80 % of the cells burn, and per_cell for every
\* cell put out
C10_Guardian(per_cell, actions, a, s) ==
    LET reached == C10_Reached(1, np_state.fire, nb_agent_positions, actions)
        fire_sum == Count(s.np_state.fire, 1)
        cells == config.grid_size * config.grid_size
    IN  /\ \A c \in reached :
              /\ a.fire[c] = 0
              /\ (\A n \in Block3x3(c, config.grid_size) : a.fire[n] = 0)
                    => s.np_state.fire[c] = 0
        /\ s.ret.reward = per_cell * Cardinality(reached) - fire_sum
                          + (IF fire_sum = 0 THEN 10000
                             ELSE IF 10 * fire_sum > 8 * cells THEN -10000
                             ELSE 0)

C10_GuardianAmended(actions, a, s) == C10_Guardian(0, actions, a, s)

C10_GuardianOriginal(actions, a, s) == C10_Guardian(100, actions, a, s)

\* the outcomes of the spread of ForestGuardianEnv after actions in which
\* the cell c burns, and those in which it does not
C10_Outcomes(actions, c, value) ==
    LET a == PhysicsAgents([pos |-> nb_agent_positions, fire |-> np_state.fire],
                           actions, 1, config.grid_size)
    IN  {fire_grid \in PhysicsFireGrids(a.fire, config.grid_size) : fire_grid[c] = value}

\* ForestGuardianEnv: a cell put out that has a burning neighbour left can
\* burn again in the state the same step returns
C10_Reignition ==
    (IsGuardian /\ HasState /\ steps < MaxCalls) =>
        \A actions \in [1..config.num_agents -> GuardianActions] :
            LET a == PhysicsAgents([pos |-> nb_agent_positions, fire |-> np_state.fire],
                                   actions, 1, config.grid_size)
            IN  \A c \in C10_Reached(1, np_state.fire, nb_agent_positions, actions) :
                    (\E n \in Block3x3(c, config.grid_size) : a.fire[n] = 1)
                        => C10_Outcomes(actions, c, 1) # {}

\* C10 (as amended): when an agent executes Suppress (action 5), every
\* in-bounds burning cell at Chebyshev distance <= 1 from the agent is put
\* out before the fire-spread phase.  In ForestFireEnv the cell becomes
\* Empty, each such cell adds +10 to the reward (a cell within reach of two
\* suppressing agents counts once) and is shown as Empty (or as an agent
\* marker) in the observation returned by that step.  In ForestGuardianEnv a
\* cell put out adds nothing to the reward, which is -0.1 per cell burning
\* after the spread and +-1000 at termination, and the spread of the same
\* step can set the cell on fire again from a burning neighbour.
C10_Suppress ==
    /\ ForAllSteps(C10_ForestFire)
    /\ ForAllGuardianSteps(C10_GuardianAmended)
    /\ C10_Reignition

\* C10 (as stated): each cell put out adds +10 to the reward in every
\* environment.
C10_Original == ForAllSteps(C10_ForestFire) /\ ForAllGuardianSteps(C10_GuardianOriginal)

\* a state of ForestGuardianEnv on the 3x3 grid, after a step, in which the
\* agent can suppress a burning cell that a burning neighbour out of the
\* agent's reach can set on fire again in the same step, or not
C10_Witness ==
    /\ IsGuardian /\ called = "step" /\ steps < MaxCalls
    /\ \E c \in Cells(config.grid_size) :
          /\ np_state.fire[c] = 1
          /\ Chebyshev(c, nb_agent_positions[1]) <= 1
          /\ C10_Outcomes([i \in 1..config.num_agents |-> 5], c, 1) # {}
          /\ C10_Outcomes([i \in 1..config.num_agents |-> 5], c, 0) # {}

\* a state of ForestFireEnv in which a burning cell is within reach of two
\* agents
C10_TwoAgents ==
    /\ IsForestFire /\ HasEpisode /\ steps_count < MaxCalls
    /\ config.num_agents = 2
    /\ \E c \in Cells(config.grid_size) :
          /\ grid[c] = 2
          /\ Chebyshev(c, agent_positions[1]) <= 1
          /\ Chebyshev(c, agent_positions[2]) <= 1

(***************************************************************************)
(* C11: Firebreak.                                                         *)
(***************************************************************************)
\* the cells holding value within Chebyshev distance 1 of an agent that
\* takes action
C11_Reached(value, action, actions) ==
    {c \in Cells(config.grid_size) :
        /\ grid[c] = value
        /\ \E i \in DOMAIN actions :
              actions[i] = action /\ Chebyshev(c, agent_positions[i]) <= 1}

C11_Step(actions, a, new_fires, s) ==
    LET cut == C11_Reached(1, 6, actions)
        put_out == C11_Reached(2, 5, actions)
    IN  /\ \A c \in Cells(config.grid_size) :
              /\ c \in cut => a.grid[c] = 0 /\ s.grid[c] = 0
              /\ (grid[c] = 1 /\ c \notin cut) => a.grid[c] = 1
              /\ (grid[c] = 2 /\ c \notin put_out) => a.grid[c] = 2
        /\ a.reward = 100 * Cardinality(put_out) - 10 * Cardinality(cut)

\* C11: when an agent executes Firebreak (action 6), every in-bounds Tree
\* cell of the 3x3 neighbourhood of its position becomes Empty (and no
\* other Tree cell does), each removed tree adds -1 to the reward, and no
\* Fire cell is changed by the action: a Fire cell changes only within
\* reach of an agent that executes Suppress.
C11_Firebreak == ForAllSteps(C11_Step)

\* without any spread (fire_spread_prob = 0) trees are gone after a step,
\* next to a fire that still burns
C11_Witness ==
    /\ IsForestFire /\ called = "step" /\ config.fire_spread_prob = 0
    /\ ret.info.trees_remaining < initial_tree_count
    /\ ret.info.active_fires >= 1
    /\ ret.reward < ret.info.trees_remaining

(***************************************************************************)
(* C12: invalid actions.                                                   *)
(***************************************************************************)
\* C12 (as stated): a step() call whose action list holds an id outside
\* 0..6, or is shorter or longer than num_agents, leaves the step counter,
\* the agent positions and the terrain unchanged.
C12_InvalidRejected ==
    (IsForestFire /\ called \in {"reset", "step"} /\ steps_count < MaxCalls) =>
        \A actions \in InvalidActionLists(config.num_agents) :
            LET a == AgentPhase(grid, agent_positions, actions, config)
            IN  \A new_fires \in NewFires(a.grid, config.grid_size,
                                          config.fire_spread_prob, elevation,
                                          fuel_moisture, wind_direction, wind_speed) :
                    LET s == SpreadPhase(a, steps_count + 1, new_fires)
                    IN  /\ s.steps_count = steps_count
                        /\ s.agent_positions = agent_positions
                        /\ s.grid = grid

(***************************************************************************)
(* C13: terminal states are absorbing.                                     *)
(***************************************************************************)
\* C13 (as stated): a step() call made after a step() that returned
\* terminated=True or truncated=True does not move agents, change terrain
\* or advance the step counter.
C13_Absorbing ==
    [][(called = "step" /\ (ret.terminated \/ ret.truncated) /\ called' = "step") =>
          /\ IsForestFire => /\ agent_positions' = agent_positions
                             /\ grid' = grid
                             /\ steps_count' = steps_count
          /\ IsGuardian => /\ nb_agent_positions' = nb_agent_positions
                           /\ np_state' = np_state
                           /\ steps' = steps
      ]_vars

(***************************************************************************)
(* C14: determinism.                                                       *)
(***************************************************************************)
\* C14 (as stated): every random draw of reset() and step() comes from the
\* generator of the environment that reset(seed=s) seeds, none from the
\* process-global generator.
C14_SeededDraws ==
    ((IsForestFire /\ HasEpisode) \/ (IsGuardian /\ HasState)) =>
        drawn_from = "self.np_random"

(***************************************************************************)
(* C15: the reward formula.                                                *)
(***************************************************************************)
\* the reward of a step whose fire term is fire_term, in tenths
C15_Reward(a, s, fire_term) ==
    LET put_out == {c \in Cells(config.grid_size) : grid[c] = 2 /\ a.grid[c] = 0}
        cut == {c \in Cells(config.grid_size) : grid[c] = 1 /\ a.grid[c] = 0}
    IN  100 * Cardinality(put_out) - 10 * Cardinality(cut)
        + fire_term + Count(s.grid, 1)
        + (IF Count(s.grid, 2) = 0 THEN 1000 ELSE 0)

C15_Step(actions, a, new_fires, s) ==
    s.ret.reward = C15_Reward(a, s, -50 * Cardinality(new_fires))

C15_StepOriginal(actions, a, new_fires, s) ==
    s.ret.reward = C15_Reward(a, s, -Count(s.grid, 2))

\* C15 (as amended): the reward returned by every step() of ForestFireEnv
\* equals sum(agent action rewards: +10 per cell put out, -1 per tree cut)
\* - 5 * (successful spread draws of the step) + 0.1 * trees_remaining,
\* plus 100 when no cell burns after the spread; there is no term in
\* active_fires.
C15_RewardFormula == ForAllSteps(C15_Step)

\* C15 (as stated): the reward equals sum(agent action rewards)
\* - 0.1 * active_fires + 0.1 * trees_remaining plus the terminal bonus.
C15_Original == ForAllSteps(C15_StepOriginal)

\* a step in which one draw succeeded and no agent earned anything
C15_Witness ==
    /\ IsForestFire /\ called = "step"
    /\ ret.info.active_fires = 2
    /\ ret.reward = ret.info.trees_remaining - 50

(***************************************************************************)
(* C16: the empty scenario.                                                *)
(***************************************************************************)
C16_Empty == IsForestFire /\ config.initial_trees = 0 /\ config.initial_fires = 0

C16_Step(actions, a, new_fires, s) ==
    (C16_Empty /\ called = "reset" /\ \A i \in DOMAIN actions : actions[i] = 4) =>
        s.ret.info.active_fires = 0 /\ s.ret.terminated

\* C16: with initial_trees=0 and initial_fires=0, reset() yields a terrain
\* that is all Empty, and the first step() with all Idle actions returns
\* info active_fires=0 and terminated=True.
C16_EmptyScenario ==
    /\ (C16_Empty /\ called = "reset") =>
          \A c \in Cells(config.grid_size) : grid[c] = 0
    /\ ForAllSteps(C16_Step)

\* the first step of the empty scenario has returned
C16_Witness ==
    /\ C16_Empty /\ called = "step" /\ steps_count = 1
    /\ ret.terminated /\ ret.info.active_fires = 0 /\ ret.info.trees_remaining = 0

(***************************************************************************)
(* C17: no spread, no self-extinguish.                                     *)
(***************************************************************************)
C17_Step(actions, a, new_fires, s) ==
    (config.fire_spread_prob = 0 /\ \A i \in DOMAIN actions : actions[i] = 4) =>
        /\ {c \in Cells(config.grid_size) : s.grid[c] = 2}
             = {c \in Cells(config.grid_size) : grid[c] = 2}
        /\ {c \in Cells(config.grid_size) : s.grid[c] = 1}
             = {c \in Cells(config.grid_size) : grid[c] = 1}

\* C17: with fire_spread_prob=0 and every agent taking Idle, the set of
\* Fire cells and the set of Tree cells are the same after a step as before
\* it, at every step of the episode.
C17_NoSpread == ForAllSteps(C17_Step)

\* two steps into an episode without spread, the fire and all trees of
\* reset() are still there
C17_Witness ==
    /\ IsForestFire /\ called = "step" /\ config.fire_spread_prob = 0
    /\ steps_count = 2
    /\ ret.info.active_fires = 1
    /\ ret.info.trees_remaining = initial_tree_count

(***************************************************************************)
(* C18: liveness of termination.                                           *)
(***************************************************************************)
\* a dense forest with a single fire and fire_spread_prob = 1.0
C18_Dense ==
    /\ IsForestFire
    /\ config.initial_trees = 1000 /\ config.initial_fires = 1
    /\ config.fire_spread_prob = 1000

\* the fire has run out of Tree neighbours: nothing can change any more
\* while the agents idle
C18_BurnedOut ==
    /\ Count(grid, 2) >= 1
    /\ \A c, n \in Cells(config.grid_size) :
          (grid[c] = 2 /\ Manhattan(c, n) = 1) => grid[n] # 1

\* C18 (as stated), in the episodes of agents that only idle: from a dense
\* forest with a single fire and fire_spread_prob=1.0, the step after which
\* the fire has no Tree neighbour left returns terminated=True.
C18_Terminates ==
    (C18_Dense /\ called = "step" /\ C18_BurnedOut) => ret.terminated

(***************************************************************************)
(* C19: observation encoding.                                              *)
(***************************************************************************)
\* C19 (as stated): in every observation grid returned by reset() or step()
\* of ForestFireEnv, agent i (counted from 0) appears as marker 3+i in
\* exactly one cell, its position; every cell without an agent shows the
\* terrain value; every value lies in 0..3+num_agents-1.
C19_Encoding ==
    (IsForestFire /\ called \in {"reset", "step"}) =>
        /\ \A i \in DOMAIN agent_positions :
              {c \in Cells(config.grid_size) : ret.obs[c] = 2 + i} = {agent_positions[i]}
        /\ \A c \in Cells(config.grid_size) :
              /\ c \notin Range(agent_positions) => ret.obs[c] = grid[c]
              /\ ret.obs[c] \in 0..(2 + config.num_agents)

(***************************************************************************)
(* C20: actuator frame and water levels.                                   *)
(***************************************************************************)
\* [pos, grid, reward] when the loop of step(actions) reaches agent i: the
\* agents before i have been resolved
C20_Before(actions, i) ==
    AgentLoop([pos |-> agent_positions, grid |-> grid, reward |-> 0],
              SubSeq(actions, 1, i - 1), 1, config.num_agents, config.grid_size)

C20_After(actions, i) ==
    ActuateAgent(C20_Before(actions, i), i, actions[i], config.grid_size)

\* the agents the loop of step(actions) resolves
C20_Resolved(actions) == 1..Min(Len(actions), config.num_agents)

\* C20: in ForestFireEnv, resolving agent i's action in step() changes no
\* position but agent i's, whatever the actions and whatever the agents
\* before i did; no call changes a water level, which is the 999 = max_water
\* of the constructor for every agent, hence within 0..max_water, in every
\* reachable state.
C20_ActuatorFrame ==
    IsForestFire =>
        /\ water_tanks = WaterTanks(config.num_agents)
        /\ \A i \in DOMAIN water_tanks : water_tanks[i] \in 0..max_water
        /\ (called \in {"reset", "step"} /\ steps_count < MaxCalls) =>
              \A actions \in ActionLists(config.num_agents)
                             \cup InvalidActionLists(config.num_agents) :
                 \A i \in C20_Resolved(actions) :
                    \A j \in DOMAIN agent_positions :
                       j # i => C20_After(actions, i).pos[j]
                                  = C20_Before(actions, i).pos[j]

\* a state of a two-agent episode from which a step moves agent 1 (the second
\* agent) after agent 0 has moved, and blocks agent 1 in another step
C20_Witness ==
    /\ IsForestFire /\ called \in {"reset", "step"} /\ steps_count < MaxCalls
    /\ config.num_agents = 2
    /\ water_tanks = <<999, 999>>
    /\ \E actions \in ActionLists(2) :
          /\ C20_Before(actions, 2).pos[1] # agent_positions[1]
          /\ C20_After(actions, 2).pos[2] # agent_positions[2]
    /\ \E actions \in ActionLists(2) :
          /\ actions[2] \in 0..3
          /\ ProposedMove(actions[2], agent_positions[2], config.grid_size)
                = C20_Before(actions, 2).pos[1]
          /\ C20_After(actions, 2).pos = C20_Before(actions, 2).pos

(***************************************************************************)
(* C21: a scalar action.                                                   *)
(***************************************************************************)
\* the fields and returned tuples step() can end with for the action list
\* the loop over the agents runs on
C21_Outcomes(actions) ==
    LET a == AgentPhase(grid, agent_positions, actions, config)
    IN  {SpreadPhase(a, steps_count + 1, new_fires) :
            new_fires \in NewFires(a.grid, config.grid_size, config.fire_spread_prob,
                                   elevation, fuel_moisture, wind_direction,
                                   wind_speed)}

\* C21 (as stated): a call step(action) of ForestFireEnv with a single
\* scalar action applies that action to every one of the num_agents agents:
\* it ends as the call step([action] * num_agents) ends.
C21_ScalarBroadcast ==
    (IsForestFire /\ called \in {"reset", "step"} /\ steps_count < MaxCalls) =>
        \A action \in Actions :
            C21_Outcomes(ScalarAsList(action))
                = C21_Outcomes([i \in 1..config.num_agents |-> action])

(***************************************************************************)
(* C22: the order of the phases of a step.                                 *)
(***************************************************************************)
\* the cells whose value is from before the step and to after the agents
C22_Changed(a, from, to) ==
    {c \in Cells(config.grid_size) : grid[c] = from /\ a.grid[c] = to}

C22_Step(actions, a, new_fires, s) ==
    \* a fire put out in this step ignites nothing in this step
    /\ \A c \in C22_Changed(a, 2, 0) : \A p \in new_fires : p[1] # c
    \* a tree removed in this step is not ignited in this step
    /\ \A c \in C22_Changed(a, 1, 0) :
          s.grid[c] = 0 /\ \A p \in new_fires : p[2] # c
    \* a cell that catches fire was still Tree after the agents and has a
    \* neighbour that still burned after the agents
    /\ \A c \in Cells(config.grid_size) :
          (grid[c] = 1 /\ s.grid[c] = 2) =>
              /\ a.grid[c] = 1
              /\ \E f \in Neighbors4(c, config.grid_size) : grid[f] = 2 /\ a.grid[f] = 2
    \* termination and the reported fire count are those after the spread
    /\ s.ret.terminated = (Count(s.grid, 2) = 0)
    /\ s.ret.info.active_fires = Count(s.grid, 2)

\* C22: in every step of ForestFireEnv the agents act first, the fire
\* spreads next and termination is decided last: a Fire cell extinguished by
\* Suppress in the step is no source of ignition in it, a Tree cell removed
\* by Firebreak in the step is not ignited in it, and terminated and
\* active_fires are computed from the Fire cells after the spread.
C22_PhaseOrder == ForAllSteps(C22_Step)

\* a state with a burning cell next to trees from which one step puts the
\* fire out before it spreads (and terminates), another removes a tree next
\* to the fire which then does not burn, and a third lets the fire spread and
\* reports the fires after the spread
C22_Witness ==
    /\ IsForestFire /\ called \in {"reset", "step"} /\ steps_count < MaxCalls
    /\ config.fire_spread_prob = 1000
    /\ \E actions \in ActionLists(config.num_agents) :
          LET a == AgentPhase(grid, agent_positions, actions, config)
          IN  /\ \E c \in C22_Changed(a, 2, 0) :
                    \E n \in Neighbors4(c, config.grid_size) : grid[n] = 1
              /\ NewFires(a.grid, config.grid_size, config.fire_spread_prob,
                          elevation, fuel_moisture, wind_direction, wind_speed) = {{}}
              /\ SpreadPhase(a, steps_count + 1, {}).ret.terminated
    /\ \E actions \in ActionLists(config.num_agents) :
          LET a == AgentPhase(grid, agent_positions, actions, config)
          IN  \E c \in C22_Changed(a, 1, 0) :
                 \E f \in Neighbors4(c, config.grid_size) : a.grid[f] = 2
    /\ \E actions \in ActionLists(config.num_agents) :
          LET a == AgentPhase(grid, agent_positions, actions, config)
          IN  \E new_fires \in NewFires(a.grid, config.grid_size, config.fire_spread_prob,
                                        elevation, fuel_moisture, wind_direction,
                                        wind_speed) :
                 /\ new_fires # {}
                 /\ SpreadPhase(a, steps_count + 1, new_fires).ret.info.active_fires
                       > Count(a.grid, 2)

(***************************************************************************)
(* C23: degenerate fire placement.                                         *)
(***************************************************************************)
\* C23 (as stated): for every grid_size >= 1, reset() of ForestFireEnv
\* returns normally, without raising, also when the terrain cannot take
\* initial_fires fires; the fires it has placed are at most initial_fires
\* and none is on an agent position.
C23_DegeneratePlacement ==
    IsForestFire =>
        /\ called # "reset raised"
        /\ called = "reset" =>
              /\ Count(grid, 2) <= config.initial_fires
              /\ \A c \in Cells(config.grid_size) :
                    grid[c] = 2 => c \notin Range(agent_positions)

(***************************************************************************)
(* C24: wind and elevation are fixed for the episode.                      *)
(***************************************************************************)
\* self.elevation is None until the first reset(): it is the same before and
\* after when it is None on both sides or the same map on both sides
C24_Fixed ==
    /\ wind_direction' = wind_direction
    /\ wind_speed' = wind_speed
    /\ HasEpisode' = HasEpisode
    /\ HasEpisode => elevation' = elevation

C24_Transition ==
    IsForestFire =>
        /\ called' = "step" => C24_Fixed
        /\ ~C24_Fixed => called' \in {"reset", "reset raised"}

\* C24: every call of step() of ForestFireEnv, for every action list,
\* leaves wind_direction, wind_speed and every cell of the elevation map as
\* they were; they change in reset() only.
C24_WindElevationFixed == [][C24_Transition]_vars

\* after the second step of an episode the wind and the elevation map are
\* those reset() drew (the constructor's wind speed is 5, the map None)
C24_Witness ==
    /\ IsForestFire /\ called = "step" /\ steps_count = 2
    /\ wind_speed # 50
    /\ \E draws \in ResetDraws(config.grid_size) :
          /\ wind_speed = draws.wind_speed
          /\ wind_direction = draws.wind_direction
          /\ elevation = ElevationMap(config.grid_size, draws.control_points)

(***************************************************************************)
(* C25: the range of the fuel moisture map.                                *)
(***************************************************************************)
\* C25: after reset() of ForestFireEnv and after every sequence of steps,
\* the measurements of the agents included (each changes the moisture of the
\* cell an agent has moved onto by at most 2), every cell of the fuel
\* moisture map lies in [5, 35] percent.
C25_MoistureRange ==
    (IsForestFire /\ HasEpisode) =>
        \A c \in Cells(config.grid_size) :
            fuel_moisture[c] >= 5000 /\ fuel_moisture[c] <= 35000

\* a state of the episode with measurements in which the agent stands on a
\* cell it has measured at the upper limit, after a measurement that moved
\* the moisture of another cell away from the value reset() gave it
C25_Witness ==
    /\ IsForestFire /\ called = "step" /\ config.mongodb_enabled
    /\ fuel_moisture[agent_positions[1]] = 35000
    /\ \E c \in Cells(config.grid_size) :
          /\ c # agent_positions[1]
          /\ \A draws \in ResetDraws(config.grid_size) :
                fuel_moisture[c] # _generate_fuel_moisture_map(elevation, draws.noise)[c]

(***************************************************************************)
(* C26: the range of the wind alignment.                                   *)
(***************************************************************************)
\* C26 (as stated): in the spread model of ForestFireEnv, with the wind the
\* episode has (wind_speed > 0), a spread directly against the wind has
\* alignment -1 and a wind factor below 1, a spread with the wind has
\* alignment +1 and a wind factor above 1.
C26_WindAlignment ==
    (IsForestFire /\ called \in {"reset", "step"} /\ wind_speed > 0) =>
        \A f \in Cells(config.grid_size) :
            \A t \in Neighbors4(f, config.grid_size) :
                LET angle_diff == AngleDiff(FireDirection(f, t), wind_direction)
                IN  /\ angle_diff = 180 =>
                          /\ Alignment(f, t, wind_direction) = -10000
                          /\ WindFactor(f, t, wind_direction, wind_speed) < 10000
                    /\ angle_diff = 0 =>
                          /\ Alignment(f, t, wind_direction) = 10000
                          /\ WindFactor(f, t, wind_direction, wind_speed) > 10000

(***************************************************************************)
(* C27: the agents are placed apart.                                       *)
(***************************************************************************)
\* C27 (as stated): after every reset() of ForestFireEnv, for every outcome
\* of the draws, the fallback positions (0, k) included, the positions of
\* the num_agents agents are pairwise distinct.
C27_PlacedApart ==
    (IsForestFire /\ called = "reset") => Distinct(agent_positions)

(***************************************************************************)
(* C28: extinction is permanent.                                           *)
(***************************************************************************)
C28_Transition ==
    (IsForestFire /\ called \in {"reset", "step"} /\ Count(grid, 2) = 0
        /\ called' = "step") =>
        /\ Count(grid', 2) = 0
        /\ ret'.terminated
        /\ ret'.info.active_fires = 0

\* C28: once the terrain of ForestFireEnv holds no Fire cell after a call,
\* it holds none after any later step, whatever the actions and the draws
\* (a Tree cell ignites only from a burning neighbour), and every later
\* step() returns terminated=True.
C28_ExtinctionPermanent == [][C28_Transition]_vars

\* the state after a first step that has put out the only fire and left
\* trees standing, from which the episode can take another step
C28_Witness ==
    /\ IsForestFire /\ called = "step" /\ steps_count = 1 /\ steps_count < MaxCalls
    /\ config.initial_fires = 1 /\ config.fire_spread_prob > 0
    /\ Count(grid, 2) = 0
    /\ Count(grid, 1) > 1
    /\ ret.terminated
    /\ ret.reward = SuppressReward(1) + SuccessBonus(0) + TreeReward(Count(grid, 1))

(***************************************************************************)
(* C29: the terrain changes in one direction only.                         *)
(***************************************************************************)
\* <<value before the step, value after it>> of a cell that changes
C29_Changes == {<<1, 2>>, <<1, 0>>, <<2, 0>>}

C29_Step(actions, a, new_fires, s) ==
    /\ \A c \in Cells(config.grid_size) :
          /\ s.grid[c] # grid[c] => <<grid[c], s.grid[c]>> \in C29_Changes
          /\ (grid[c] = 2 /\ s.grid[c] # 2) =>
                \E i \in DOMAIN agent_positions :
                    /\ actions[i] = 5
                    /\ Chebyshev(agent_positions[i], c) <= 1
    /\ Count(s.grid, 1) <= Count(grid, 1)
    /\ Count(s.grid, 1) + Count(s.grid, 2) <= Count(grid, 1) + Count(grid, 2)

\* C29: across every step of ForestFireEnv a cell that changes goes from
\* Tree to Fire, from Tree to Empty or from Fire to Empty: an Empty cell
\* stays Empty, a Fire cell never becomes Tree, and a Fire cell stays Fire
\* unless an agent executes Suppress within Chebyshev distance 1 of it; the
\* number of Tree cells and the number of Tree and Fire cells do not
\* increase.
C29_Monotone == ForAllSteps(C29_Step)

\* a state from which steps make each of the three changes: one lets the
\* fire take a tree, one removes a tree by Firebreak, one puts a fire out
C29_Witness ==
    /\ IsForestFire /\ called \in {"reset", "step"} /\ steps_count < MaxCalls
    /\ \A ch \in C29_Changes :
          \E actions \in ActionLists(config.num_agents) :
             LET a == AgentPhase(grid, agent_positions, actions, config)
             IN  \E new_fires \in NewFires(a.grid, config.grid_size,
                                           config.fire_spread_prob, elevation,
                                           fuel_moisture, wind_direction, wind_speed) :
                    \E c \in Cells(config.grid_size) :
                       /\ grid[c] = ch[1]
                       /\ SpreadPhase(a, steps_count + 1, new_fires).grid[c] = ch[2]
                       /\ (ch = <<1, 2>> => \A i \in DOMAIN actions : actions[i] = 4)
                       /\ (ch = <<1, 0>> => \E i \in DOMAIN actions : actions[i] = 6)

(***************************************************************************)
(* C30: a fire under an agent is not in the observation.                   *)
(***************************************************************************)
\* the Fire cells on which an agent stands
C30_Covered == {c \in Cells(config.grid_size) : grid[c] = 2 /\ c \in Range(agent_positions)}

\* C30: in every tuple step() of ForestFireEnv returns, the number of cells
\* of the observation grid that equal 2 is info['active_fires'] minus the
\* number of Fire cells on which an agent stands.
C30_HiddenFire ==
    (IsForestFire /\ called = "step") =>
        Count(ret.obs, 2) = ret.info.active_fires - Cardinality(C30_Covered)

\* a step has returned an observation without a 2 while a fire burns under
\* an agent: active_fires is 1 and terminated is False
C30_Witness ==
    /\ IsForestFire /\ called = "step"
    /\ Count(ret.obs, 2) = 0
    /\ Cardinality(C30_Covered) = 1
    /\ ret.info.active_fires = 1
    /\ ~ret.terminated

====
